---- MODULE Spec2Model ----
(***************************************************************************)
(* A model of the push-to-talk engine of cewko/meep:                        *)
(*   SpeechRecognizer (model loader and transcription),                     *)
(*   VoiceRecorder    (audio capture buffer),                               *)
(*   AudioProcessor   (recording coordinator),                              *)
(*   HotkeyManager    (edge detector) and                                   *)
(*   VoiceService     (channel service).                                    *)
(* Every thread of the program is a process of the model.  A method whose   *)
(* reads and writes of shared fields can interleave with another thread's   *)
(* is split into one action per shared access; a block under a lock is one  *)
(* action.                                                                  *)
(*                                                                          *)
(* Eleven specifications share the state:                                   *)
(*   SpecText       the recognizer's text functions, applied to every       *)
(*                  string of a bounded alphabet;                           *)
(*   SpecLoader     the recognizer, initialize_model called from several    *)
(*                  threads;                                                *)
(*   SpecRecognizer the recognizer, transcribe called from several threads  *)
(*                  with any array while initialize_model is called from    *)
(*                  several threads;                                        *)
(*   SpecBackend    the same, with the backend's call and the iteration of  *)
(*                  the segments it returns as two steps;                   *)
(*   SpecMonitor    the hotkey manager alone: a thread calling              *)
(*                  check_hotkeys, a thread calling update_hotkey_mappings  *)
(*                  through the service, the keyboard, and edge callbacks   *)
(*                  that return or raise;                                   *)
(*   SpecCapture    the recorder, used by one thread beside the audio       *)
(*                  thread;                                                 *)
(*   SpecProcessor  the coordinator, used by one thread while several       *)
(*                  threads call initialize_model: load threads, audio      *)
(*                  thread and one AudioProcessor thread per recording;     *)
(*   SpecService    the service, started and stopped by one thread: poll    *)
(*                  threads, audio thread, load thread and one              *)
(*                  AudioProcessor thread per recording;                    *)
(*   SpecKeys       the running service with the keyboard: keys going down  *)
(*                  and up, the poll thread reading them, key queries that  *)
(*                  raise and bindings replaced; SpecKeysLive adds the      *)
(*                  fairness of the poll thread;                            *)
(*   Spec           the application: the interface as main_window.py drives *)
(*                  it, hotkey poll thread, audio thread, load thread and   *)
(*                  one AudioProcessor thread per recording.                *)
(***************************************************************************)
EXTENDS Integers, Sequences, FiniteSets, TLC

\* ---------------------------------------------------------------- bounds
\* threads that may call initialize_model at the same time (SpecLoader)
MaxCallers == 2
\* calls of initialize_model_async that pass its guard (= load threads)
MaxLoadThreads == 2
\* recordings started (sessions) in one behaviour
MaxSessions == 2
\* chunks the audio callback is handed during one session
MaxChunks == 2
\* frames in one chunk
MaxFrames == 2
\* characters in a string handed to the text functions (SpecText)
MaxTextLen == 3
\* recordings started in one behaviour of SpecService
MaxServiceSessions == 1
\* recordings started in one behaviour of SpecKeys
MaxKeySessions == 1
\* calls of update_hotkey_mappings in one behaviour of SpecKeys
MaxUpdates == 1
\* key queries that raise in one behaviour of SpecKeys
MaxQueryErrors == 1

Callers == 1..MaxCallers
LoadThreads == 1..MaxLoadThreads
Sessions == 1..MaxSessions

\* a chunk is indata: a non-empty array of frames, one sample per frame
\* (AudioSettings.channels = 1).  The k-th chunk of a session holds the
\* sample value k in each of its frames, so that a chunk lost, repeated or
\* out of place shows in the samples.
ChunkSet(k) == {[i \in 1..n |-> k] : n \in 1..MaxFrames}

\* the bound keys, in the iteration order of the mappings dict
KeyOrder == <<"g", "l">>
Keys == {KeyOrder[i] : i \in DOMAIN KeyOrder}

\* strings are sequences of characters.  The bindings the service is
\* constructed with: two keys with one prefix, or with a prefix and none
MappingSets == {[k \in Keys |-> <<"!">>],
                [k \in Keys |-> IF k = KeyOrder[1] THEN <<"!">> ELSE <<>>]}

\* bindings update_hotkey_mappings may be handed: those, no binding at
\* all, and bindings one of whose keys is the empty string
NoMappings == [k \in {} |-> <<>>]
BadKeyMappings == [k \in {"", KeyOrder[1]} |-> <<"!">>]
CandidateMappings == MappingSets \cup {NoMappings, BadKeyMappings}

\* the text of the segments the backend returns, joined
RawTexts == {<<" ">>, <<" ", "h", "i">>}

VARIABLES
    \* ---- SpeechRecognizer fields
    is_model_loading,   \* self._is_model_loading
    is_model_ready,     \* self._is_model_ready
    model,              \* self._model: "None" or "WhisperModel"
    model_load_lock,    \* self._model_load_lock: <<>> (free) or its holder
    \* ---- threads of the loader
    caller_pc,          \* caller -> "idle" | "guard_passed"
    n_load_threads,     \* ModelInitializer threads started so far
    load_pc,            \* load thread -> position in _load_model_sync
    \* ---- history of the loader (not program state)
    load_outcome,       \* load thread -> "none" | "ok" | "fail" | "skip"
    construct_attempts, \* WhisperModel(...) constructions started
    ready_calls,        \* observer invocations: <<[thread, value]>>
    accepted_calls,     \* calls of initialize_model_async that passed the guard
    calls_at_last_fail, \* accepted_calls when an attempt last ended failed, -1 if none
    \* ---- VoiceRecorder fields
    audio_buffer,       \* self._audio_buffer: sequence of chunks
    stream,             \* self._stream: "None" | "Open" | "Unstarted" | "Broken"
    is_recording,       \* self._is_recording
    \* ---- the audio subsystem's callback thread
    cb_pc,              \* "idle" | "append" (inside _audio_callback, past the check)
    cb_chunk,           \* indata of the callback in progress
    \* ---- a thread using the recorder or the coordinator directly
    client_pc,          \* "idle" | "close" | "drain" (inside stop_recording) |
                        \* "start_returned" | "start_raised" | "stop_returned"
                        \* (back from a call, with what it ended in)
    \* ---- history of the recorder (not program state)
    n_sessions,         \* recordings started so far
    n_chunks,           \* chunks handed to the callback in this session
    session_chunks,     \* chunks appended since the recording started
    chunks_at_stop,     \* session_chunks when stop_recording was called
    last_stop,          \* what the last stop_recording ended with
    \* ---- a caller of the recognizer's text functions (SpecText)
    text_call,          \* the call it made: what was called (op), its
                        \* argument (arg) and what it and the calls of
                        \* _format_text on its result returned (results)
    \* ---- the thread that starts and stops the service (SpecService)
    ui_pc,              \* "idle" | inside stop: "clear" | "cleanup" |
                        \* "cleanup_close" | "cleanup_drain" | "join" | back
                        \* from a call that did nothing: "start_ignored" |
                        \* "stop_ignored"
    poll2_pc,           \* a second VoiceServiceMonitor thread, alive beside
                        \* the one of poll_pc: "none" | "sleep" | "lock"
    \* ---- history of the service's life cycle (not program state)
    after_stop,         \* "no", or how the last stop() returned, no start()
                        \* having begun the service since: "joined" (no poll
                        \* thread alive) | "timed_out"
    query_errors,       \* flips whenever keyboard.is_pressed raises in a tick
    \* ---- the outside world
    focused,            \* MinecraftDetector.is_minecraft_focused()
    keys_down,          \* the keys held down on the keyboard
    \* ---- history of the hotkey manager (not program state)
    last_edge,          \* key -> "none" | "press" | "release": the last edge
                        \* callback invoked for it since the bindings were set
                        \* ("ignored": a press edge the service's handler
                        \* returned from without starting a recording)
    held_presses,       \* key -> press edges since the key last went down or up
    edge_parity,        \* flips at every edge callback invoked
    bindings_parity,    \* flips at every update_hotkey_mappings
    abandoned,          \* the keys the last update_hotkey_mappings found tracked
    tick_mappings,      \* _hotkey_mappings as the tick in progress found it
    last_update,        \* the last call of VoiceService.update_hotkey_mappings:
                        \* its argument (arg), whether it raised, and a bit
                        \* that flips at every call (parity)
    \* ---- HotkeyManager fields
    hotkey_mappings,    \* self._hotkey_mappings: key -> prefix
    pressed_keys,       \* self._pressed_keys
    hm_is_running,      \* HotkeyManager._is_running
    \* ---- VoiceService fields
    svc_hotkey_mappings, \* VoiceService._hotkey_mappings
    is_running,         \* VoiceService._is_running
    current_prefix,     \* self._current_prefix
    auto_send,          \* self._auto_send
    pending_resets,     \* StatusReset threads sleeping
    \* ---- the status callback
    last_status,        \* the last status event
    \* ---- the VoiceServiceMonitor thread
    poll_pc,            \* "none" | "sleep" | "key" | "close" | "drain"
    poll_idx,           \* the binding check_hotkeys is at, 0 outside a tick
    \* ---- the AudioProcessor threads, one per session
    proc_pc,            \* session -> position in _process_audio
    proc_audio,         \* session -> audio_data it was started with
    proc_result,        \* session -> what it will pass to the callback
    \* ---- history of the service (not program state)
    session_owner,      \* session -> the binding whose press started it
    sess_stop,          \* session -> progress of its stop_recording_and_process
    proc_backend,       \* session -> what the backend did for it
    completions,        \* session -> arguments its completion callback got
    completion_status,  \* session -> the status events its completion
                        \* callback emitted first, one per invocation
    delivered           \* what was handed to the message sender

loaderVars == <<is_model_loading, is_model_ready, model, model_load_lock,
                caller_pc, n_load_threads, load_pc, load_outcome,
                construct_attempts, ready_calls, accepted_calls,
                calls_at_last_fail>>

recorderVars == <<audio_buffer, stream, is_recording, cb_pc, cb_chunk,
                  n_sessions, n_chunks, session_chunks, chunks_at_stop, last_stop>>

monitorHistory == <<last_edge, held_presses, edge_parity, bindings_parity,
                    abandoned, tick_mappings>>
\* the outside world and what the hotkey manager showed it
textVars == <<text_call>>
\* the service's copy of the bindings and the calls that write it
bindingVars == <<svc_hotkey_mappings, last_update>>
lifecycleVars == <<ui_pc, poll2_pc, after_stop, query_errors>>
envVars == <<focused, keys_down, monitorHistory, textVars, bindingVars,
             lifecycleVars>>
hotkeyVars == <<hotkey_mappings, pressed_keys, hm_is_running>>
serviceVars == <<is_running, current_prefix, auto_send, pending_resets>>
statusVars == <<last_status>>
pollVars == <<poll_pc, poll_idx>>
procVars == <<proc_pc, proc_audio, proc_result>>
historyVars == <<session_owner, sess_stop, proc_backend, completions,
                 completion_status, delivered>>

vars == <<loaderVars, recorderVars, client_pc, envVars, hotkeyVars, serviceVars,
          statusVars, pollVars, procVars, historyVars>>

\* what a thread of the loader leaves alone, the status apart
notLoader == <<recorderVars, client_pc, envVars, hotkeyVars, serviceVars,
               pollVars, procVars, historyVars>>
\* what the audio thread and a direct user of the recorder leave alone
notRecorder == <<loaderVars, envVars, hotkeyVars, serviceVars, statusVars,
                 pollVars, procVars, historyVars>>

\* ------------------------------------------------------- status events

\* VoiceService._update_status; when one step has several status events,
\* this is the last
EmitStatus(message) == last_status' = message

\* ------------------------------------------------------------ the loader

LoaderInit ==
    /\ is_model_loading = FALSE
    /\ is_model_ready = FALSE
    /\ model = "None"
    /\ model_load_lock = <<>>
    /\ caller_pc = [c \in Callers |-> "idle"]
    /\ n_load_threads = 0
    /\ load_pc = [t \in LoadThreads |-> "unborn"]
    /\ load_outcome = [t \in LoadThreads |-> "none"]
    /\ construct_attempts = 0
    /\ ready_calls = <<>>
    /\ accepted_calls = 0
    /\ calls_at_last_fail = -1

\* is_model_ready property
IsModelReady == is_model_ready

\* VoiceService.initialize_model (voice_service.py 49-53) down to
\* initialize_model_async, line 28: the guard.  A call that finds the loader
\* loading or ready returns at once; one that passes goes on to line 31.
InitializeModelAsync_Guard(c) ==
    /\ caller_pc[c] = "idle"
    /\ EmitStatus("Loading speech recognition model...")
    /\ accepted_calls < MaxLoadThreads
    /\ caller_pc' = [caller_pc EXCEPT ![c] =
                        IF is_model_loading \/ is_model_ready
                        THEN "idle" ELSE "guard_passed"]
    /\ accepted_calls' = IF is_model_loading \/ is_model_ready
                         THEN accepted_calls ELSE accepted_calls + 1
    /\ UNCHANGED <<is_model_loading, is_model_ready, model, model_load_lock,
                   n_load_threads, load_pc, load_outcome, construct_attempts,
                   ready_calls, calls_at_last_fail>>
    /\ UNCHANGED notLoader

\* initialize_model_async, lines 31-39: set the flag, start the thread.
InitializeModelAsync_Start(c) ==
    /\ caller_pc[c] = "guard_passed"
    /\ is_model_loading' = TRUE
    /\ n_load_threads' = n_load_threads + 1
    /\ load_pc' = [load_pc EXCEPT ![n_load_threads + 1] = "start"]
    /\ caller_pc' = [caller_pc EXCEPT ![c] = "idle"]
    /\ UNCHANGED <<is_model_ready, model, model_load_lock, load_outcome,
                   construct_attempts, ready_calls, accepted_calls,
                   calls_at_last_fail>>
    /\ UNCHANGED <<notLoader, statusVars>>

\* _load_model_sync, lines 44-46: take the lock; with a model already there
\* the thread returns (through finally), else it goes on to construct.
LoadModelSync_Acquire(t) ==
    /\ load_pc[t] = "start"
    /\ model_load_lock = <<>>
    /\ IF model # "None"
       THEN /\ load_pc' = [load_pc EXCEPT ![t] = "finally"]
            /\ load_outcome' = [load_outcome EXCEPT ![t] = "skip"]
            /\ UNCHANGED <<model_load_lock, construct_attempts>>
       ELSE /\ load_pc' = [load_pc EXCEPT ![t] = "construct"]
            /\ model_load_lock' = <<"load", t>>
            /\ construct_attempts' = construct_attempts + 1
            /\ UNCHANGED load_outcome
    /\ UNCHANGED <<is_model_loading, is_model_ready, model, caller_pc,
                   n_load_threads, ready_calls, accepted_calls, calls_at_last_fail>>
    /\ UNCHANGED <<notLoader, statusVars>>

\* _load_model_sync with line 56 moved above the construction: the flag is
\* set before WhisperModel(...) is called
LoadModelSync_Construct_FlagFirst(t, ok) ==
    /\ load_pc[t] = "construct"
    /\ model_load_lock = <<"load", t>>
    /\ model_load_lock' = <<>>
    /\ is_model_ready' = TRUE
    /\ IF ok
       THEN /\ model' = "WhisperModel"
            /\ load_pc' = [load_pc EXCEPT ![t] = "finally"]
            /\ load_outcome' = [load_outcome EXCEPT ![t] = "ok"]
       ELSE /\ load_pc' = [load_pc EXCEPT ![t] = "finally"]
            /\ load_outcome' = [load_outcome EXCEPT ![t] = "fail"]
            /\ UNCHANGED model
    /\ UNCHANGED <<is_model_loading, caller_pc, n_load_threads,
                   construct_attempts, ready_calls, accepted_calls,
                   calls_at_last_fail>>
    /\ UNCHANGED <<notLoader, statusVars>>

\* _load_model_sync, lines 50-57: WhisperModel(...) returns or raises; the
\* with block releases the lock either way.
LoadModelSync_Construct(t, ok) ==
    /\ load_pc[t] = "construct"
    /\ model_load_lock = <<"load", t>>
    /\ model_load_lock' = <<>>
    /\ IF ok
       THEN /\ model' = "WhisperModel"
            /\ is_model_ready' = TRUE
            /\ load_pc' = [load_pc EXCEPT ![t] = "finally"]
            /\ load_outcome' = [load_outcome EXCEPT ![t] = "ok"]
       ELSE /\ load_pc' = [load_pc EXCEPT ![t] = "except"]
            /\ load_outcome' = [load_outcome EXCEPT ![t] = "fail"]
            /\ UNCHANGED <<model, is_model_ready>>
    /\ UNCHANGED <<is_model_loading, caller_pc, n_load_threads,
                   construct_attempts, ready_calls, accepted_calls,
                   calls_at_last_fail>>
    /\ UNCHANGED <<notLoader, statusVars>>

\* _load_model_sync, lines 59-61: the except branch, outside the lock.
LoadModelSync_Except(t) ==
    /\ load_pc[t] = "except"
    /\ is_model_ready' = FALSE
    /\ load_pc' = [load_pc EXCEPT ![t] = "finally"]
    /\ UNCHANGED <<is_model_loading, model, model_load_lock, caller_pc,
                   n_load_threads, load_outcome, construct_attempts,
                   ready_calls, accepted_calls, calls_at_last_fail>>
    /\ UNCHANGED <<notLoader, statusVars>>

\* _load_model_sync, line 64: finally, first statement.
LoadModelSync_Finally(t) ==
    /\ load_pc[t] = "finally"
    /\ is_model_loading' = FALSE
    /\ load_pc' = [load_pc EXCEPT ![t] = "notify"]
    /\ calls_at_last_fail' = IF load_outcome[t] = "fail"
                             THEN accepted_calls ELSE calls_at_last_fail
    /\ UNCHANGED <<is_model_ready, model, model_load_lock, caller_pc,
                   n_load_threads, load_outcome, construct_attempts, ready_calls,
                   accepted_calls>>
    /\ UNCHANGED <<notLoader, statusVars>>

\* _load_model_sync, lines 65-66: the observer gets the flag as it is now;
\* it is AudioProcessor._on_model_ready, which hands the flag on to
\* VoiceService._on_model_ready (voice_service.py 55-64).
LoadModelSync_Notify(t) ==
    /\ load_pc[t] = "notify"
    /\ EmitStatus(IF is_model_ready THEN "Model loaded successfully! Ready to start"
                  ELSE "Failed to load speech recognition model")
    /\ ready_calls' = Append(ready_calls, [thread |-> t, value |-> is_model_ready])
    /\ load_pc' = [load_pc EXCEPT ![t] = "done"]
    /\ UNCHANGED <<is_model_loading, is_model_ready, model, model_load_lock,
                   caller_pc, n_load_threads, load_outcome, construct_attempts,
                   accepted_calls, calls_at_last_fail>>
    /\ UNCHANGED notLoader

LoaderThreadSteps ==
    \/ \E t \in LoadThreads : LoadModelSync_Acquire(t)
    \/ \E t \in LoadThreads, ok \in BOOLEAN : LoadModelSync_Construct(t, ok)
    \/ \E t \in LoadThreads : LoadModelSync_Except(t)
    \/ \E t \in LoadThreads : LoadModelSync_Finally(t)
    \/ \E t \in LoadThreads : LoadModelSync_Notify(t)

\* ---------------------------------------------------------- the recorder

RecorderInit ==
    /\ audio_buffer = <<>>
    /\ stream = "None"
    /\ is_recording = FALSE
    /\ cb_pc = "idle"
    /\ cb_chunk = <<>>
    /\ n_sessions = 0
    /\ n_chunks = 0
    /\ session_chunks = <<>>
    /\ chunks_at_stop = <<>>
    /\ last_stop = [kind |-> "none"]

\* an ndarray, as far as the program looks at it: its dimensions and its
\* samples in row-major order
Array(n, d) == [ndim |-> n, data |-> d]

\* np.array([])
EmptyArray == Array(1, <<>>)

RECURSIVE Concatenate(_)
\* np.concatenate(list(buffer), axis=0): the chunks' frames, in buffer order
Concatenate(buffer) ==
    IF buffer = <<>> THEN <<>>
    ELSE Head(buffer) \o Concatenate(Tail(buffer))

\* ndarray.squeeze() of an (n, 1) array: (n,) and, for n = 1, a 0-d array
Squeeze(frames) == Array(IF Len(frames) = 1 THEN 0 ELSE 1, frames)

\* ndarray.size
Size(a) == Len(a.data)

\* VoiceRecorder.is_recording property
IsRecording == is_recording

\* start_recording with line 44, the flag's reset, left out
StartRecording_KeepFlag(outcome) ==
    IF is_recording
    THEN UNCHANGED recorderVars
    ELSE /\ audio_buffer' = <<>>
         /\ is_recording' = TRUE
         /\ stream' = CASE outcome = "ok" -> "Open"
                        [] outcome = "start_fails" -> "Unstarted"
                        [] OTHER -> stream
         /\ n_sessions' = IF outcome = "ok" THEN n_sessions + 1 ELSE n_sessions
         /\ n_chunks' = 0
         /\ session_chunks' = <<>>
         /\ chunks_at_stop' = <<>>
         /\ last_stop' = [kind |-> "none"]
         /\ UNCHANGED <<cb_pc, cb_chunk>>

\* start_recording, lines 24-45.  outcome: "ok", "open_fails" (sd.InputStream
\* raises) or "start_fails" (stream.start() raises).  No callback runs before
\* stream.start() has returned, so the method is one step for the audio thread.
StartRecording(outcome) ==
    IF is_recording
    THEN UNCHANGED recorderVars
    ELSE /\ audio_buffer' = <<>>
         /\ is_recording' = (outcome = "ok")
         /\ stream' = CASE outcome = "ok" -> "Open"
                        [] outcome = "start_fails" -> "Unstarted"
                        [] OTHER -> stream
         /\ n_sessions' = IF outcome = "ok" THEN n_sessions + 1 ELSE n_sessions
         /\ n_chunks' = 0
         /\ session_chunks' = <<>>
         /\ chunks_at_stop' = <<>>
         /\ last_stop' = [kind |-> "none"]
         /\ UNCHANGED <<cb_pc, cb_chunk>>

\* what start_recording does to its caller: returns or raises AudioProcessingError
StartRecordingRaises(outcome) == ~is_recording /\ outcome # "ok"

\* stop_recording with line 53, the flag's reset, left out
StopRecording_Begin_KeepFlag ==
    IF ~is_recording
    THEN /\ last_stop' = [kind |-> "data", data |-> EmptyArray,
                          appended |-> <<>>, at_call |-> <<>>, guarded |-> TRUE]
         /\ UNCHANGED <<audio_buffer, stream, is_recording, cb_pc, cb_chunk,
                        n_sessions, n_chunks, session_chunks, chunks_at_stop>>
    ELSE /\ chunks_at_stop' = session_chunks
         /\ UNCHANGED <<audio_buffer, stream, is_recording, cb_pc, cb_chunk,
                        n_sessions, n_chunks, session_chunks, last_stop>>

\* stop_recording, lines 49-53: the guard and the flag.
StopRecording_Begin ==
    IF ~is_recording
    THEN /\ last_stop' = [kind |-> "data", data |-> EmptyArray,
                          appended |-> <<>>, at_call |-> <<>>, guarded |-> TRUE]
         /\ UNCHANGED <<audio_buffer, stream, is_recording, cb_pc, cb_chunk,
                        n_sessions, n_chunks, session_chunks, chunks_at_stop>>
    ELSE /\ is_recording' = FALSE
         /\ chunks_at_stop' = session_chunks
         /\ UNCHANGED <<audio_buffer, stream, cb_pc, cb_chunk, n_sessions,
                        n_chunks, session_chunks, last_stop>>

\* stop_recording, lines 56-59 (and 71-72): stream.stop() returns once the
\* callback in progress has returned, and no callback runs after it; if it
\* raises, the method raises AudioProcessingError with the buffer as it is.
StopRecording_Close(ok) ==
    /\ cb_pc = "idle"
    /\ IF stream = "Open" /\ ~ok
       THEN /\ stream' = "Broken"
            /\ last_stop' = [kind |-> "error", phase |-> "close",
                             appended |-> session_chunks,
                             at_call |-> chunks_at_stop]
       ELSE /\ stream' = "None"
            /\ UNCHANGED last_stop
    /\ UNCHANGED <<audio_buffer, is_recording, cb_pc, cb_chunk, n_sessions,
                   n_chunks, session_chunks, chunks_at_stop>>

\* whether StopRecording_Close(ok) raises
StopRecordingCloseRaises(ok) == stream = "Open" /\ ~ok

\* stop_recording, lines 61-72: under _buffer_lock, drain and clear.
StopRecording_Drain ==
    /\ IF audio_buffer = <<>>
       THEN /\ last_stop' = [kind |-> "error", phase |-> "drain",
                             appended |-> session_chunks,
                             at_call |-> chunks_at_stop]
            /\ UNCHANGED audio_buffer
       ELSE /\ last_stop' = [kind |-> "data",
                             data |-> Squeeze(Concatenate(audio_buffer)),
                             appended |-> session_chunks,
                             at_call |-> chunks_at_stop, guarded |-> FALSE]
            /\ audio_buffer' = <<>>
    /\ UNCHANGED <<stream, is_recording, cb_pc, cb_chunk, n_sessions,
                   n_chunks, session_chunks, chunks_at_stop>>

\* _audio_callback, line 76: the audio thread is handed a chunk and reads
\* the flag; a chunk that finds it false is dropped.
AudioCallback_Check(chunk) ==
    /\ cb_pc = "idle"
    /\ stream = "Open"
    /\ n_chunks < MaxChunks
    /\ n_chunks' = n_chunks + 1
    /\ IF is_recording
       THEN cb_pc' = "append" /\ cb_chunk' = chunk
       ELSE UNCHANGED <<cb_pc, cb_chunk>>
    /\ UNCHANGED <<audio_buffer, stream, is_recording, n_sessions,
                   session_chunks, chunks_at_stop, last_stop>>
    /\ UNCHANGED <<notRecorder, client_pc>>

\* _audio_callback with appendleft in place of append
AudioCallback_AppendLeft ==
    /\ cb_pc = "append"
    /\ audio_buffer' = <<cb_chunk>> \o audio_buffer
    /\ session_chunks' = Append(session_chunks, cb_chunk)
    /\ cb_pc' = "idle"
    /\ cb_chunk' = <<>>
    /\ UNCHANGED <<stream, is_recording, n_sessions, n_chunks,
                   chunks_at_stop, last_stop>>
    /\ UNCHANGED <<notRecorder, client_pc>>

\* _audio_callback, lines 77-78: under _buffer_lock, append a copy.
AudioCallback_Append ==
    /\ cb_pc = "append"
    /\ audio_buffer' = Append(audio_buffer, cb_chunk)
    /\ session_chunks' = Append(session_chunks, cb_chunk)
    /\ cb_pc' = "idle"
    /\ cb_chunk' = <<>>
    /\ UNCHANGED <<stream, is_recording, n_sessions, n_chunks,
                   chunks_at_stop, last_stop>>
    /\ UNCHANGED <<notRecorder, client_pc>>

\* _audio_callback handed the first chunk of a session, of one frame
FirstChunk ==
    /\ n_chunks = 0
    /\ AudioCallback_Check(<<1>>)

AudioSteps ==
    \/ \E chunk \in ChunkSet(n_chunks + 1) : AudioCallback_Check(chunk)
    \/ AudioCallback_Append

\* ---- a thread that uses the recorder directly

\* whether the guard of start_recording, line 26, lets a call through
StartAccepted == ~is_recording

\* the caller goes on after a call that returned or raised
Client_Return ==
    /\ client_pc \in {"start_returned", "start_raised", "stop_returned"}
    /\ client_pc' = "idle"
    /\ UNCHANGED <<notRecorder, recorderVars>>

Client_StartRecording(outcome) ==
    /\ client_pc = "idle"
    /\ n_sessions < MaxSessions
    /\ StartRecording(outcome)
    /\ client_pc' = IF StartRecordingRaises(outcome)
                    THEN "start_raised" ELSE "start_returned"
    /\ UNCHANGED notRecorder

Client_StopRecording_Begin ==
    /\ client_pc = "idle"
    /\ StopRecording_Begin
    /\ client_pc' = IF is_recording THEN "close" ELSE "idle"
    /\ UNCHANGED notRecorder

Client_StopRecording_Close(ok) ==
    /\ client_pc = "close"
    /\ StopRecording_Close(ok)
    /\ client_pc' = IF StopRecordingCloseRaises(ok) THEN "idle" ELSE "drain"
    /\ UNCHANGED notRecorder

Client_StopRecording_Drain ==
    /\ client_pc = "drain"
    /\ StopRecording_Drain
    /\ client_pc' = "idle"
    /\ UNCHANGED notRecorder

ClientSteps ==
    \/ \E outcome \in {"ok", "open_fails", "start_fails"} : Client_StartRecording(outcome)
    \/ Client_StopRecording_Begin
    \/ \E ok \in BOOLEAN : Client_StopRecording_Close(ok)
    \/ Client_StopRecording_Drain
    \/ Client_Return

\* ------------------------------------------------------------- the text

\* str.strip(), of the blank
RECURSIVE LStrip(_)
LStrip(t) == IF t # <<>> /\ Head(t) = " " THEN LStrip(Tail(t)) ELSE t

RECURSIVE RStrip(_)
RStrip(t) == IF t # <<>> /\ t[Len(t)] = " " THEN RStrip(SubSeq(t, 1, Len(t) - 1)) ELSE t

Strip(t) == RStrip(LStrip(t))

\* str.upper() of one character
Upper(c) ==
    CASE c = "h" -> "H"
      [] c = "i" -> "I"
      [] c = "o" -> "O"
      [] c = "k" -> "K"
      [] OTHER -> c

\* DEFAULT_SENTENCE_ENDINGS
SentenceEndings == {".", "!", "?"}

\* _format_text with the sentence ending appended whatever the text ends in
FormatText_AlwaysEnding(text) ==
    IF text = <<>> THEN text
    ELSE <<Upper(text[1])>> \o Tail(text) \o <<".">>

\* _format_text with text.upper() taken whatever the length of the text
FormatText_UpperAll(text) ==
    IF text = <<>> THEN text
    ELSE LET formatted == [i \in 1..Len(text) |-> Upper(text[i])]
         IN IF formatted[Len(formatted)] \in SentenceEndings
            THEN formatted
            ELSE formatted \o <<".">>

\* SpeechRecognizer._format_text, lines 121-133
FormatText(text) ==
    IF text = <<>> THEN text
    ELSE LET formatted == <<Upper(text[1])>> \o Tail(text)
         IN IF formatted[Len(formatted)] \in SentenceEndings
            THEN formatted
            ELSE formatted \o <<".">>

\* _format_message without the blank between prefix and text
FormatMessage_NoBlank(text, prefix) ==
    IF prefix # <<>> THEN prefix \o text ELSE text

\* VoiceService._format_message, lines 183-187
FormatMessage(text, prefix) ==
    IF prefix # <<>> THEN prefix \o <<" ">> \o text ELSE text

\* what _process_audio hands the completion callback: None or a string
None == [is_none |-> TRUE, text |-> <<>>]
Text(t) == [is_none |-> FALSE, text |-> t]

\* transcribe, lines 109-116: what it returns when the backend returned
\* segments whose texts joined are raw
TranscribeReturns(raw) ==
    IF Strip(raw) = <<>> THEN Text(<<>>) ELSE Text(FormatText(Strip(raw)))

\* the characters of the strings the text functions are applied to: the
\* blank, a letter in both cases, the sentence endings
TextAlphabet == {" ", "h", "H", ".", "!", "?"}
RECURSIVE Strings(_)
Strings(n) ==
    IF n = 0 THEN {<<>>}
    ELSE LET shorter == Strings(n - 1)
         IN shorter \cup {Append(t, c) : t \in {u \in shorter : Len(u) = n - 1},
                                         c \in TextAlphabet}
TextInputs == Strings(MaxTextLen)

TextInit == text_call = [op |-> "none", arg |-> <<>>, results |-> <<>>]

\* a call of _format_text with a non-empty string
Text_Format(text) ==
    /\ text_call.op = "none"
    /\ text # <<>>
    /\ text_call' = [op |-> "format", arg |-> text, results |-> <<Text(FormatText(text))>>]
    /\ UNCHANGED <<loaderVars, recorderVars, client_pc, focused, keys_down,
                   monitorHistory, bindingVars, lifecycleVars, hotkeyVars,
                   serviceVars, statusVars, pollVars, procVars, historyVars>>

\* a call of transcribe on a loaded model, the backend returning segments
\* whose texts joined are raw
Text_Transcribe(raw) ==
    /\ text_call.op = "none"
    /\ text_call' = [op |-> "transcribe", arg |-> raw, results |-> <<TranscribeReturns(raw)>>]
    /\ UNCHANGED <<loaderVars, recorderVars, client_pc, focused, keys_down,
                   monitorHistory, bindingVars, lifecycleVars, hotkeyVars,
                   serviceVars, statusVars, pollVars, procVars, historyVars>>

\* a call of _format_text with the text the call before returned
Text_FormatAgain ==
    /\ Len(text_call.results) = 1
    /\ text_call.results[1].text # <<>>
    /\ text_call' = [text_call EXCEPT !.results =
                         Append(@, Text(FormatText(text_call.results[1].text)))]
    /\ UNCHANGED <<loaderVars, recorderVars, client_pc, focused, keys_down,
                   monitorHistory, bindingVars, lifecycleVars, hotkeyVars,
                   serviceVars, statusVars, pollVars, procVars, historyVars>>

\* ------------------------------------------------------------ the service

ServiceInit ==
    /\ focused = FALSE
    /\ keys_down = {}
    /\ last_edge = [k \in Keys |-> "none"]
    /\ held_presses = [k \in Keys |-> 0]
    /\ edge_parity = 0
    /\ bindings_parity = 0
    /\ abandoned = {}
    /\ hotkey_mappings \in MappingSets
    /\ tick_mappings = hotkey_mappings
    /\ svc_hotkey_mappings = hotkey_mappings
    /\ last_update = [parity |-> 0, raised |-> FALSE, arg |-> hotkey_mappings]
    /\ pressed_keys = {}
    /\ hm_is_running = FALSE
    /\ is_running = FALSE
    /\ ui_pc = "idle"
    /\ poll2_pc = "none"
    /\ after_stop = "no"
    /\ query_errors = 0
    /\ current_prefix = <<>>
    /\ auto_send = TRUE
    /\ pending_resets = 0
    /\ last_status = "Voice service initialized (auto-send)"
    /\ poll_pc = "none"
    /\ poll_idx = 0
    /\ proc_pc = [s \in Sessions |-> "unborn"]
    /\ proc_audio = [s \in Sessions |-> EmptyArray]
    /\ proc_result = [s \in Sessions |-> None]
    /\ session_owner = [s \in Sessions |-> <<>>]
    /\ sess_stop = [s \in Sessions |-> "none"]
    /\ proc_backend = [s \in Sessions |-> "none"]
    /\ completions = [s \in Sessions |-> <<>>]
    /\ completion_status = [s \in Sessions |-> <<>>]
    /\ delivered = <<>>

\* ---- the outside world

\* MinecraftDetector.is_minecraft_focused changes its answer
FocusChange ==
    /\ focused' = ~focused
    /\ UNCHANGED <<textVars, bindingVars, lifecycleVars, keys_down,
                   monitorHistory>>
    /\ UNCHANGED <<loaderVars, recorderVars, client_pc, hotkeyVars,
                   serviceVars, statusVars, pollVars, procVars, historyVars>>

\* ---- the interface thread

\* VoiceService.start, lines 66-89
ServiceStart ==
    /\ ~is_running
    /\ IF ~is_model_ready
       THEN /\ EmitStatus("Cannot start: Speech recognition model not ready")
            /\ UNCHANGED <<is_running, hm_is_running, pollVars>>
       ELSE /\ is_running' = TRUE
            /\ hm_is_running' = TRUE
            /\ poll_pc' = "sleep"
            /\ poll_idx' = 0
            /\ EmitStatus("Started. Use configured hotkeys to record")
    /\ UNCHANGED <<loaderVars, recorderVars, client_pc, envVars, hotkey_mappings,
                   pressed_keys, current_prefix, auto_send, pending_resets,
                   procVars, historyVars>>

\* _schedule_status_reset's thread, lines 191-194
StatusReset ==
    /\ pending_resets > 0
    /\ pending_resets' = pending_resets - 1
    /\ EmitStatus(IF auto_send THEN "Use hotkeys to speak (auto-send)"
                  ELSE "Use hotkeys to speak (manual-send)")
    /\ UNCHANGED <<loaderVars, recorderVars, client_pc, envVars, hotkeyVars,
                   is_running, current_prefix, auto_send, pollVars, procVars,
                   historyVars>>

\* MainWindow._is_model_ready (main_window.py 125-127): the last value the
\* interface's observer was given
UiIsModelReady == ready_calls # <<>> /\ ready_calls[Len(ready_calls)].value

\* the thread of the interface that calls into the service
InterfaceThread == 1

\* MainWindow._initialize_voice_service (main_window.py 84-122): the one
\* call of initialize_model the interface makes
Ui_InitializeModel_Guard ==
    /\ n_load_threads = 0
    /\ InitializeModelAsync_Guard(InterfaceThread)

Ui_InitializeModel_Start == InitializeModelAsync_Start(InterfaceThread)

\* VoiceService.set_auto_send, lines 106-112
SetAutoSend(value) == auto_send' = value

\* MainWindow._toggle_auto_send (main_window.py 268-286)
Ui_ToggleAutoSend ==
    /\ SetAutoSend(~auto_send)
    /\ EmitStatus(IF ~auto_send
                  THEN "Auto-send enabled. Messages will be sent automatically"
                  ELSE "Auto-send disabled. Messages will open in chat for editing")
    /\ UNCHANGED <<loaderVars, recorderVars, client_pc, envVars, hotkeyVars,
                   is_running, current_prefix, pending_resets, pollVars,
                   procVars, historyVars>>

\* MainWindow._toggle_voice_chat into _start_voice_chat (main_window.py
\* 221-240): start is called once the observer has been told the model is ready
Ui_StartVoiceChat ==
    /\ UiIsModelReady
    /\ ServiceStart

\* ---- the completion callback

\* `not transcribed_text`
Falsy(result) == result.is_none \/ result.text = <<>>

\* MessageSender.send_message (message_sender.py 16-32): a blank message is
\* dropped, any other goes to the keyboard controller in the mode given
SendMessage(s, message, mode) ==
    IF Strip(message) = <<>>
    THEN delivered
    ELSE Append(delivered, [session |-> s, message |-> message, auto_send |-> mode])

\* the status event _on_transcription_complete emits first, lines 162,
\* 170 and 173
FirstCompletionStatus(result) ==
    IF Falsy(result) THEN "No speech detected"
    ELSE IF auto_send THEN "Message recognized. Sending automatically"
    ELSE "Message recognized. Ready to be modified (press Enter to send)"

\* _on_transcription_complete without the check of lines 161-164
OnTranscriptionComplete_NoEmptyCheck(s, result) ==
    /\ completions' = [completions EXCEPT ![s] = Append(@, result)]
    /\ completion_status' = [completion_status EXCEPT ![s] =
                                 Append(@, FirstCompletionStatus(Text(<<"x">>)))]
    /\ delivered' = SendMessage(s, FormatMessage(result.text, current_prefix),
                                auto_send)
    /\ pending_resets' = pending_resets + 1

\* _on_transcription_complete without line 163: the early return for an
\* empty result schedules no status reset
OnTranscriptionComplete_NoResetWhenEmpty(s, result) ==
    /\ completions' = [completions EXCEPT ![s] = Append(@, result)]
    /\ completion_status' = [completion_status EXCEPT ![s] =
                                 Append(@, FirstCompletionStatus(result))]
    /\ delivered' = IF Falsy(result) THEN delivered
                    ELSE SendMessage(s, FormatMessage(result.text, current_prefix),
                                     auto_send)
    /\ pending_resets' = IF Falsy(result) THEN pending_resets
                         ELSE pending_resets + 1

\* VoiceService._on_transcription_complete, lines 159-181, but for its
\* last status event
OnTranscriptionComplete(s, result) ==
    /\ completions' = [completions EXCEPT ![s] = Append(@, result)]
    /\ completion_status' = [completion_status EXCEPT ![s] =
                                 Append(@, FirstCompletionStatus(result))]
    /\ delivered' = IF Falsy(result) THEN delivered
                    ELSE SendMessage(s, FormatMessage(result.text, current_prefix),
                                     auto_send)
    /\ pending_resets' = pending_resets + 1

\* the last status event of _on_transcription_complete; send_ok: the
\* keyboard controller does not raise
CompletionStatus(result, send_ok) ==
    IF Falsy(result) THEN "No speech detected"
    ELSE IF ~send_ok THEN "Send error"
    ELSE IF auto_send THEN "Message recognized. Sending automatically"
    ELSE "Message recognized. Ready to be modified (press Enter to send)"

\* ---- the coordinator

\* AudioProcessor.start_recording, lines 40-49
ProcessorStartRecording(outcome) ==
    IF ~is_model_ready
    THEN UNCHANGED recorderVars
    ELSE StartRecording(outcome)

\* whether ProcessorStartRecording(outcome) raises AudioProcessingError
ProcessorStartRaises(outcome) ==
    ~is_model_ready \/ StartRecordingRaises(outcome)

\* stop_recording_and_process, lines 53-58, called while recording, up to
\* the recorder's flag write
StopAndProcess_Begin ==
    /\ StopRecording_Begin
    /\ sess_stop' = [sess_stop EXCEPT ![n_sessions] = "begun"]

\* stop_recording_and_process, lines 57-69, in stop_recording's
\* stream.stop(): if that raises, the callback gets None at once
StopAndProcess_Close(ok) ==
    /\ StopRecording_Close(ok)
    /\ IF StopRecordingCloseRaises(ok)
       THEN /\ OnTranscriptionComplete(n_sessions, None)
            /\ sess_stop' = [sess_stop EXCEPT ![n_sessions] = "drain_failed"]
       ELSE UNCHANGED <<pending_resets, sess_stop, completions, completion_status, delivered>>

\* stop_recording_and_process, lines 57-69, in stop_recording's drain: with
\* audio the AudioProcessor thread is started, without the callback gets None
StopAndProcess_Drain ==
    /\ StopRecording_Drain
    /\ IF audio_buffer = <<>>
       THEN /\ OnTranscriptionComplete(n_sessions, None)
            /\ sess_stop' = [sess_stop EXCEPT ![n_sessions] = "drain_failed"]
            /\ UNCHANGED <<proc_pc, proc_audio>>
       ELSE /\ proc_pc' = [proc_pc EXCEPT ![n_sessions] = "transcribe"]
            /\ proc_audio' = [proc_audio EXCEPT ![n_sessions] = last_stop'.data]
            /\ sess_stop' = [sess_stop EXCEPT ![n_sessions] = "task"]
            /\ UNCHANGED <<pending_resets, completions, completion_status, delivered>>

\* whether stop_recording raises in its drain
StopAndProcessDrainRaises == audio_buffer = <<>>

\* ---- the VoiceServiceMonitor thread

\* _monitoring_loop, lines 122-124, into check_hotkeys, lines 63-68
Poll_TickBegin ==
    /\ poll_pc = "sleep"
    /\ is_running
    /\ IF hm_is_running
       THEN poll_pc' = "key" /\ poll_idx' = 1
       ELSE UNCHANGED pollVars
    /\ UNCHANGED <<loaderVars, recorderVars, client_pc, envVars, hotkeyVars,
                   serviceVars, statusVars, procVars, historyVars>>

\* the binding check_hotkeys is at
PollKey == KeyOrder[poll_idx]
\* where check_hotkeys goes after this binding
PollNextPc == IF poll_idx = Len(KeyOrder) THEN "sleep" ELSE "key"
PollNextIdx == IF poll_idx = Len(KeyOrder) THEN 0 ELSE poll_idx + 1

\* check_hotkeys, lines 70-78: keyboard.is_pressed answers as it did at the
\* last tick
Poll_NoEdge ==
    /\ poll_pc = "key"
    /\ poll_pc' = PollNextPc
    /\ poll_idx' = PollNextIdx
    /\ UNCHANGED <<loaderVars, recorderVars, client_pc, envVars, hotkeyVars,
                   serviceVars, statusVars, procVars, historyVars>>

\* _on_hotkey_pressed without the focus check of lines 139-141
OnHotkeyPressed_NoFocusCheck(key, prefix, outcome) ==
    IF is_recording
    THEN UNCHANGED <<recorderVars, current_prefix, statusVars, session_owner>>
    ELSE IF ~is_model_ready
    THEN /\ EmitStatus("Speech recognition model not ready")
         /\ UNCHANGED <<recorderVars, current_prefix, session_owner>>
    ELSE /\ current_prefix' = prefix
         /\ ProcessorStartRecording(outcome)
         /\ IF ProcessorStartRaises(outcome)
            THEN /\ EmitStatus("Recording error")
                 /\ UNCHANGED session_owner
            ELSE /\ EmitStatus("Recording with prefix")
                 /\ session_owner' = [session_owner EXCEPT ![n_sessions + 1] =
                                         [key |-> key, prefix |-> prefix]]

\* VoiceService._on_hotkey_pressed, lines 131-151, with
\* AudioProcessor.start_recording (audio_processor.py 40-49) inside
OnHotkeyPressed(key, prefix, outcome) ==
    IF is_recording
    THEN UNCHANGED <<recorderVars, current_prefix, statusVars, session_owner>>
    ELSE IF ~is_model_ready
    THEN /\ EmitStatus("Speech recognition model not ready")
         /\ UNCHANGED <<recorderVars, current_prefix, session_owner>>
    ELSE IF ~focused
    THEN /\ EmitStatus("Minecraft is not focused. Hold the key while in-game.")
         /\ UNCHANGED <<recorderVars, current_prefix, session_owner>>
    ELSE /\ current_prefix' = prefix
         /\ ProcessorStartRecording(outcome)
         /\ IF ProcessorStartRaises(outcome)
            THEN /\ EmitStatus("Recording error")
                 /\ UNCHANGED session_owner
            ELSE /\ EmitStatus("Recording with prefix")
                 /\ session_owner' = [session_owner EXCEPT ![n_sessions + 1] =
                                         [key |-> key, prefix |-> prefix]]

\* whether _on_hotkey_pressed would start a recording
PressAccepted == ~is_recording /\ is_model_ready /\ focused

\* check_hotkeys, lines 70-73: keyboard.is_pressed answers true for a key
\* not in _pressed_keys, a press edge
Poll_PressEdge(outcome) ==
    /\ poll_pc = "key"
    /\ PollKey \notin pressed_keys
    /\ PressAccepted => n_sessions < MaxSessions
    /\ pressed_keys' = pressed_keys \cup {PollKey}
    /\ OnHotkeyPressed(PollKey, hotkey_mappings[PollKey], outcome)
    /\ poll_pc' = PollNextPc
    /\ poll_idx' = PollNextIdx
    /\ UNCHANGED <<loaderVars, client_pc, envVars, hotkey_mappings, hm_is_running,
                   is_running, auto_send, pending_resets, procVars,
                   sess_stop, proc_backend, completions, completion_status, delivered>>

\* check_hotkeys, lines 74-77: keyboard.is_pressed answers false for a key
\* in _pressed_keys, a release edge, into
\* VoiceService._on_hotkey_released, lines 153-157, and
\* stop_recording_and_process (audio_processor.py 51-58) up to the recorder's
\* flag write
Poll_ReleaseEdge ==
    /\ poll_pc = "key"
    /\ PollKey \in pressed_keys
    /\ pressed_keys' = pressed_keys \ {PollKey}
    /\ IF is_recording /\ current_prefix = hotkey_mappings[PollKey]
       THEN /\ StopAndProcess_Begin
            /\ poll_pc' = "close"
            /\ UNCHANGED poll_idx
       ELSE /\ poll_pc' = PollNextPc
            /\ poll_idx' = PollNextIdx
            /\ UNCHANGED <<recorderVars, sess_stop>>
    /\ UNCHANGED <<loaderVars, client_pc, envVars, hotkey_mappings, hm_is_running,
                   serviceVars, statusVars, procVars, session_owner,
                   proc_backend, completions, completion_status, delivered>>

\* _on_hotkey_released, lines 155-157, in stop_recording_and_process's
\* stream.stop(); when the call is over, "Processing..." is the status
Poll_StopClose(ok) ==
    /\ poll_pc = "close"
    /\ StopAndProcess_Close(ok)
    /\ IF StopRecordingCloseRaises(ok)
       THEN /\ EmitStatus("Processing...")
            /\ poll_pc' = PollNextPc
            /\ poll_idx' = PollNextIdx
       ELSE /\ poll_pc' = "drain"
            /\ UNCHANGED <<poll_idx, statusVars>>
    /\ UNCHANGED <<loaderVars, client_pc, envVars, hotkeyVars, is_running,
                   current_prefix, auto_send, procVars, session_owner, proc_backend>>

\* _on_hotkey_released, lines 155-157, in stop_recording_and_process's drain
Poll_StopDrain ==
    /\ poll_pc = "drain"
    /\ StopAndProcess_Drain
    /\ EmitStatus("Processing...")
    /\ poll_pc' = PollNextPc
    /\ poll_idx' = PollNextIdx
    /\ UNCHANGED <<loaderVars, client_pc, envVars, hotkeyVars, is_running,
                   current_prefix, auto_send, proc_result, session_owner,
                   proc_backend>>

\* ---- the service started and stopped (SpecService)

\* what the steps of start and stop and of the poll threads' loop leave alone
notLifecycle == <<loaderVars, client_pc, focused, keys_down, monitorHistory,
                  textVars, bindingVars, hotkey_mappings, current_prefix,
                  auto_send, pending_resets, procVars, historyVars>>

\* a VoiceServiceMonitor thread is alive
PollThreadAlive == poll_pc # "none" \/ poll2_pc # "none"

\* VoiceService.start without the readiness check of lines 72-74
Service_Start_NoReadyCheck ==
    /\ ui_pc = "idle"
    /\ IF is_running
       THEN /\ ui_pc' = "start_ignored"
            /\ UNCHANGED <<is_running, hm_is_running, pollVars, poll2_pc,
                           after_stop, statusVars>>
       ELSE /\ poll_pc = "none" \/ poll2_pc = "none"
            /\ is_running' = TRUE
            /\ hm_is_running' = TRUE
            /\ IF poll_pc = "none"
               THEN poll_pc' = "sleep" /\ poll_idx' = 0 /\ UNCHANGED poll2_pc
               ELSE poll2_pc' = "sleep" /\ UNCHANGED pollVars
            /\ after_stop' = "no"
            /\ EmitStatus("Started. Use configured hotkeys to record")
            /\ UNCHANGED ui_pc
    /\ UNCHANGED <<notLifecycle, recorderVars, pressed_keys, query_errors>>

\* VoiceService.start, lines 66-89, called by the thread that starts and
\* stops the service.  The thread it starts is a new one, whatever became
\* of the thread of the start before; the model has room for two
Service_Start ==
    /\ ui_pc = "idle"
    /\ IF is_running
       THEN /\ ui_pc' = "start_ignored"
            /\ UNCHANGED <<is_running, hm_is_running, pollVars, poll2_pc,
                           after_stop, statusVars>>
       ELSE IF ~is_model_ready
       THEN /\ EmitStatus("Cannot start: Speech recognition model not ready")
            /\ UNCHANGED <<is_running, hm_is_running, pollVars, poll2_pc,
                           after_stop, ui_pc>>
       ELSE /\ poll_pc = "none" \/ poll2_pc = "none"
            /\ is_running' = TRUE
            /\ hm_is_running' = TRUE
            /\ IF poll_pc = "none"
               THEN poll_pc' = "sleep" /\ poll_idx' = 0 /\ UNCHANGED poll2_pc
               ELSE poll2_pc' = "sleep" /\ UNCHANGED pollVars
            /\ after_stop' = "no"
            /\ EmitStatus("Started. Use configured hotkeys to record")
            /\ UNCHANGED ui_pc
    /\ UNCHANGED <<notLifecycle, recorderVars, pressed_keys, query_errors>>

\* VoiceService.stop, lines 91-97, into stop_monitoring
\* (hotkey_manager.py 54): the flags
Service_Stop_Begin ==
    /\ ui_pc = "idle"
    /\ IF ~is_running
       THEN /\ ui_pc' = "stop_ignored"
            /\ UNCHANGED <<is_running, hm_is_running>>
       ELSE /\ is_running' = FALSE
            /\ hm_is_running' = FALSE
            /\ ui_pc' = "clear"
    /\ UNCHANGED <<notLifecycle, recorderVars, pressed_keys, statusVars,
                   pollVars, poll2_pc, after_stop, query_errors>>

\* a call that did nothing has returned
Service_Return ==
    /\ ui_pc \in {"start_ignored", "stop_ignored"}
    /\ ui_pc' = "idle"
    /\ UNCHANGED <<notLifecycle, recorderVars, hotkeyVars, is_running,
                   statusVars, pollVars, poll2_pc, after_stop, query_errors>>

\* stop_monitoring (hotkey_manager.py 55-56): under _key_lock, which
\* check_hotkeys holds for the whole of a tick
Service_Stop_Clear ==
    /\ ui_pc = "clear"
    /\ poll_pc \notin {"key", "close", "drain"}
    /\ pressed_keys' = {}
    /\ ui_pc' = "cleanup"
    /\ UNCHANGED <<notLifecycle, recorderVars, is_running, hm_is_running,
                   statusVars, pollVars, poll2_pc, after_stop, query_errors>>

\* VoiceService.stop, line 98: AudioProcessor.cleanup into
\* VoiceRecorder.cleanup (voice_recorder.py 85-88) and, while recording,
\* stop_recording up to its flag write
Service_Stop_Cleanup ==
    /\ ui_pc = "cleanup"
    /\ IF is_recording
       THEN StopRecording_Begin /\ ui_pc' = "cleanup_close"
       ELSE UNCHANGED recorderVars /\ ui_pc' = "join"
    /\ UNCHANGED <<notLifecycle, hotkeyVars, is_running, statusVars, pollVars,
                   poll2_pc, after_stop, query_errors>>

\* cleanup in stop_recording's stream.stop(): if that raises, stop raises
Service_Stop_CleanupClose(ok) ==
    /\ ui_pc = "cleanup_close"
    /\ StopRecording_Close(ok)
    /\ ui_pc' = IF StopRecordingCloseRaises(ok) THEN "idle" ELSE "cleanup_drain"
    /\ UNCHANGED <<notLifecycle, hotkeyVars, is_running, statusVars, pollVars,
                   poll2_pc, after_stop, query_errors>>

\* cleanup in stop_recording's drain: without audio stop raises, with
\* audio the array is dropped
Service_Stop_CleanupDrain ==
    /\ ui_pc = "cleanup_drain"
    /\ StopRecording_Drain
    /\ ui_pc' = IF audio_buffer = <<>> THEN "idle" ELSE "join"
    /\ UNCHANGED <<notLifecycle, hotkeyVars, is_running, statusVars, pollVars,
                   poll2_pc, after_stop, query_errors>>

\* VoiceService.stop, lines 100-104: join(timeout=1.0) returns when the
\* thread has ended or when the time is up (timed_out); then "Stopped"
Service_Stop_Join(timed_out) ==
    /\ ui_pc = "join"
    /\ timed_out = PollThreadAlive
    /\ after_stop' = IF timed_out THEN "timed_out" ELSE "joined"
    /\ EmitStatus("Stopped")
    /\ ui_pc' = "idle"
    /\ UNCHANGED <<notLifecycle, recorderVars, hotkeyVars, is_running,
                   pollVars, poll2_pc, query_errors>>

\* _monitoring_loop, line 122, and check_hotkeys, line 63: the thread
\* reads the two flags; it ends, sleeps again, or goes on to take _key_lock
Poll_LoopCheck ==
    /\ poll_pc = "sleep"
    /\ poll_pc' = IF ~is_running THEN "none"
                  ELSE IF hm_is_running THEN "lock" ELSE "sleep"
    /\ poll_pc' # poll_pc
    /\ UNCHANGED <<notLifecycle, recorderVars, hotkeyVars, is_running,
                   statusVars, poll_idx, lifecycleVars>>

\* check_hotkeys, lines 66-68: the thread takes _key_lock and begins to
\* iterate the bindings
Poll_Lock ==
    /\ poll_pc = "lock"
    /\ poll_pc' = "key"
    /\ poll_idx' = 1
    /\ UNCHANGED <<notLifecycle, recorderVars, hotkeyVars, is_running,
                   statusVars, lifecycleVars>>

\* the same two steps of the second thread; when it takes _key_lock it
\* becomes the thread of poll_pc, and the other the second
Poll2_LoopCheck ==
    /\ poll2_pc = "sleep"
    /\ poll2_pc' = IF ~is_running THEN "none"
                   ELSE IF hm_is_running THEN "lock" ELSE "sleep"
    /\ poll2_pc' # poll2_pc
    /\ UNCHANGED <<notLifecycle, recorderVars, hotkeyVars, is_running,
                   statusVars, pollVars, ui_pc, after_stop, query_errors>>

Poll2_Lock ==
    /\ poll2_pc = "lock"
    /\ poll_pc \notin {"key", "close", "drain"}
    /\ poll2_pc' = poll_pc
    /\ poll_pc' = "key"
    /\ poll_idx' = 1
    /\ UNCHANGED <<notLifecycle, recorderVars, hotkeyVars, is_running,
                   statusVars, ui_pc, after_stop, query_errors>>

\* check_hotkeys, lines 70 and 78-80: keyboard.is_pressed raises; the
\* except branch logs a warning and discards the key
Poll_QueryRaises ==
    /\ poll_pc = "key"
    /\ pressed_keys' = pressed_keys \ {PollKey}
    /\ query_errors' = 1 - query_errors
    /\ poll_pc' = PollNextPc
    /\ poll_idx' = PollNextIdx
    /\ UNCHANGED <<notLifecycle, recorderVars, hotkey_mappings, hm_is_running,
                   is_running, statusVars, ui_pc, poll2_pc, after_stop>>

\* a press edge in a tick of the service, as in Poll_PressEdge
Service_PressEdge(outcome) ==
    /\ PressAccepted => n_sessions < MaxServiceSessions
    /\ Poll_PressEdge(outcome)

\* ---- the hotkey manager alone, its callbacks any functions

\* what the thread calling update_hotkey_mappings leaves alone, and what the
\* keyboard and the thread calling check_hotkeys leave alone
notUpdate == <<loaderVars, recorderVars, client_pc, focused, textVars,
               lifecycleVars, serviceVars, statusVars, procVars, historyVars>>
notMonitor == <<notUpdate, bindingVars>>

\* a key goes down
KeyDown(k) ==
    /\ k \notin keys_down
    /\ keys_down' = keys_down \cup {k}
    /\ held_presses' = [held_presses EXCEPT ![k] = 0]
    /\ UNCHANGED <<last_edge, edge_parity, bindings_parity, abandoned,
                   tick_mappings, hotkeyVars, pollVars, notMonitor>>

\* a key goes up
KeyUp(k) ==
    /\ k \in keys_down
    /\ keys_down' = keys_down \ {k}
    /\ held_presses' = [held_presses EXCEPT ![k] = 0]
    /\ UNCHANGED <<last_edge, edge_parity, bindings_parity, abandoned,
                   tick_mappings, hotkeyVars, pollVars, notMonitor>>

\* start_monitoring, lines 45-49, and a thread that goes on to call
\* check_hotkeys again and again
Monitor_Start ==
    /\ poll_pc = "none"
    /\ hm_is_running' = TRUE
    /\ poll_pc' = "sleep"
    /\ UNCHANGED <<keys_down, monitorHistory, hotkey_mappings, pressed_keys,
                   poll_idx, notMonitor>>

\* check_hotkeys, lines 63-68: running, it takes _key_lock and begins to
\* iterate the bindings
CheckHotkeys_Begin ==
    /\ poll_pc = "sleep"
    /\ hm_is_running
    /\ poll_pc' = "key"
    /\ poll_idx' = 1
    /\ tick_mappings' = hotkey_mappings
    /\ UNCHANGED <<keys_down, last_edge, held_presses, edge_parity,
                   bindings_parity, abandoned, hotkeyVars, notMonitor>>

\* check_hotkeys, lines 69-80, for one binding.  raises: "none", "query"
\* (keyboard.is_pressed raises) or "callback" (the edge callback raises);
\* the except branch of lines 78-80 discards the key
CheckHotkeys_Key(raises) ==
    /\ poll_pc = "key"
    /\ LET press == raises # "query" /\ PollKey \in keys_down
                                     /\ PollKey \notin pressed_keys
           release == raises # "query" /\ PollKey \notin keys_down
                                       /\ PollKey \in pressed_keys
       IN  /\ raises = "callback" => (press \/ release)
           /\ pressed_keys' = IF raises # "none" \/ release
                              THEN pressed_keys \ {PollKey}
                              ELSE IF press THEN pressed_keys \cup {PollKey}
                              ELSE pressed_keys
           /\ last_edge' = IF press THEN [last_edge EXCEPT ![PollKey] = "press"]
                           ELSE IF release
                           THEN [last_edge EXCEPT ![PollKey] = "release"]
                           ELSE last_edge
           /\ held_presses' = IF press
                              THEN [held_presses EXCEPT ![PollKey] =
                                       IF @ < 2 THEN @ + 1 ELSE @]
                              ELSE held_presses
           /\ edge_parity' = IF press \/ release
                             THEN 1 - edge_parity ELSE edge_parity
    /\ poll_pc' = PollNextPc
    /\ poll_idx' = PollNextIdx
    /\ UNCHANGED <<keys_down, bindings_parity, abandoned, tick_mappings,
                   hotkey_mappings, hm_is_running, notMonitor>>

\* HotkeyManager._validate_hotkey_mappings, lines 30-43: whether it raises
\* HotkeyError.  The keys of a dict are distinct, so the check of lines
\* 35-38 never raises
ValidateHotkeyMappingsRaises(mappings) ==
    \/ DOMAIN mappings = {}
    \/ \E hotkey \in DOMAIN mappings : hotkey = ""

\* HotkeyManager.__init__, lines 14-28: whether it raises, which is whether
\* VoiceService.__init__ does
ConstructorRaises(mappings) == ValidateHotkeyMappingsRaises(mappings)

\* update_hotkey_mappings without line 92, the clear
UpdateHotkeyMappings_NoClear(new_mappings) ==
    IF ValidateHotkeyMappingsRaises(new_mappings)
    THEN UNCHANGED <<keys_down, monitorHistory, hotkeyVars, pollVars, notUpdate>>
    ELSE /\ poll_pc # "key"
         /\ hotkey_mappings' = new_mappings
         /\ abandoned' = pressed_keys
         /\ last_edge' = [k \in Keys |-> "none"]
         /\ held_presses' = [k \in Keys |-> 0]
         /\ bindings_parity' = 1 - bindings_parity
         /\ UNCHANGED <<keys_down, edge_parity, tick_mappings, pressed_keys,
                        hm_is_running, pollVars, notUpdate>>

\* HotkeyManager.update_hotkey_mappings, lines 86-94: it raises before any
\* write, or replaces the bindings and clears the tracked keys under
\* _key_lock, which check_hotkeys holds for the whole of a tick
UpdateHotkeyMappings(new_mappings) ==
    IF ValidateHotkeyMappingsRaises(new_mappings)
    THEN UNCHANGED <<keys_down, monitorHistory, hotkeyVars, pollVars, notUpdate>>
    ELSE /\ poll_pc # "key"
         /\ hotkey_mappings' = new_mappings
         /\ pressed_keys' = {}
         /\ abandoned' = pressed_keys
         /\ last_edge' = [k \in Keys |-> "none"]
         /\ held_presses' = [k \in Keys |-> 0]
         /\ bindings_parity' = 1 - bindings_parity
         /\ UNCHANGED <<keys_down, edge_parity, tick_mappings, hm_is_running,
                        pollVars, notUpdate>>

\* VoiceService.update_hotkey_mappings, lines 114-117: the service's copy
\* is written, then the manager is called
Service_UpdateHotkeyMappings(new_mappings) ==
    /\ svc_hotkey_mappings' = new_mappings
    /\ UpdateHotkeyMappings(new_mappings)
    /\ last_update' = [parity |-> 1 - last_update.parity,
                       raised |-> ValidateHotkeyMappingsRaises(new_mappings),
                       arg |-> new_mappings]

\* ---- the service's poll thread with the keyboard (SpecKeys)

\* check_hotkeys, lines 70-73, with the service's handler: the key is down
\* and not tracked, a press edge.  The history tells a press edge the
\* handler ignored from one it went on with
Keys_PressEdge(outcome) ==
    /\ poll_pc = "key"
    /\ PollKey \in keys_down
    /\ PollKey \notin pressed_keys
    /\ PressAccepted => n_sessions < MaxKeySessions
    /\ pressed_keys' = pressed_keys \cup {PollKey}
    /\ OnHotkeyPressed(PollKey, hotkey_mappings[PollKey], outcome)
    /\ held_presses' = [held_presses EXCEPT ![PollKey] = IF @ < 2 THEN @ + 1 ELSE @]
    /\ last_edge' = [last_edge EXCEPT ![PollKey] =
                         IF PressAccepted THEN "press" ELSE "ignored"]
    /\ poll_pc' = PollNextPc
    /\ poll_idx' = PollNextIdx
    /\ UNCHANGED <<loaderVars, client_pc, focused, keys_down, edge_parity,
                   bindings_parity, abandoned, tick_mappings, textVars,
                   bindingVars, lifecycleVars, hotkey_mappings, hm_is_running,
                   is_running, auto_send, pending_resets, procVars, sess_stop,
                   proc_backend, completions, completion_status, delivered>>

\* check_hotkeys, lines 74-77: the key is up and tracked, a release edge
Keys_ReleaseEdge ==
    /\ poll_pc = "key"
    /\ PollKey \notin keys_down
    /\ Poll_ReleaseEdge

\* check_hotkeys, lines 70-77: the key is as the tracked keys say
Keys_NoEdge ==
    /\ poll_pc = "key"
    /\ PollKey \in keys_down <=> PollKey \in pressed_keys
    /\ Poll_NoEdge

\* check_hotkeys, lines 70 and 78-80, as in Poll_QueryRaises
Keys_QueryRaises ==
    /\ query_errors < MaxQueryErrors
    /\ Poll_QueryRaises

\* VoiceService.update_hotkey_mappings called while the poll thread is
\* running; _key_lock is held for the whole of a tick, the handlers' calls
\* included
Keys_UpdateHotkeyMappings(new_mappings) ==
    /\ is_running
    /\ last_update.parity < MaxUpdates
    /\ poll_pc \notin {"key", "close", "drain"}
    /\ Service_UpdateHotkeyMappings(new_mappings)

\* ---- the AudioProcessor threads

\* _process_audio without its except branch: the thread ends
TranscribeRaises_NoCallback(s) ==
    /\ proc_pc' = [proc_pc EXCEPT ![s] = "done"]
    /\ proc_result' = [proc_result EXCEPT ![s] = None]

\* _process_audio's except branch (audio_processor.py 77-79): transcribe
\* raised AudioProcessingError, the callback will get None
TranscribeRaises(s) ==
    /\ proc_pc' = [proc_pc EXCEPT ![s] = "callback"]
    /\ proc_result' = [proc_result EXCEPT ![s] = None]

\* the arrays transcribe is called with by a thread of its own: np.array([]),
\* a 0-d array of one sample, an array of two samples
AudioInputs == {EmptyArray, Squeeze(<<1>>), Squeeze(<<1, 1>>)}

\* a thread enters _process_audio (audio_processor.py 71-74) with audio_data
\* and calls transcribe
Transcribe_Call(s, audio_data) ==
    /\ proc_pc[s] = "unborn"
    /\ proc_pc' = [proc_pc EXCEPT ![s] = "transcribe"]
    /\ proc_audio' = [proc_audio EXCEPT ![s] = audio_data]
    /\ UNCHANGED <<loaderVars, recorderVars, client_pc, envVars, hotkeyVars,
                   serviceVars, statusVars, pollVars, proc_result, historyVars>>

\* transcribe with lines 91-92, the check of the size, left out
Transcribe_Begin_NoSizeCheck(s) ==
    /\ proc_pc[s] = "transcribe"
    /\ proc_pc' = [proc_pc EXCEPT ![s] =
                      IF is_model_ready THEN "lock" ELSE "check_loading"]
    /\ UNCHANGED proc_result
    /\ UNCHANGED <<loaderVars, recorderVars, client_pc, envVars, hotkeyVars,
                   serviceVars, statusVars, pollVars, proc_audio, historyVars>>

\* transcribe, lines 91-95: the size of the audio and the ready flag
Transcribe_Begin(s) ==
    /\ proc_pc[s] = "transcribe"
    /\ IF Size(proc_audio[s]) = 0
       THEN TranscribeRaises(s)
       ELSE /\ proc_pc' = [proc_pc EXCEPT ![s] =
                              IF is_model_ready THEN "lock" ELSE "check_loading"]
            /\ UNCHANGED proc_result
    /\ UNCHANGED <<loaderVars, recorderVars, client_pc, envVars, hotkeyVars,
                   serviceVars, statusVars, pollVars, proc_audio, historyVars>>

\* transcribe, lines 96-100: not ready; the loading flag decides between
\* waiting and raising
Transcribe_CheckLoading(s) ==
    /\ proc_pc[s] = "check_loading"
    /\ IF is_model_loading
       THEN /\ proc_pc' = [proc_pc EXCEPT ![s] = "wait_entry"]
            /\ UNCHANGED proc_result
       ELSE TranscribeRaises(s)
    /\ UNCHANGED <<loaderVars, recorderVars, client_pc, envVars, hotkeyVars,
                   serviceVars, statusVars, pollVars, proc_audio, historyVars>>

\* wait_for_model, lines 70-71: ready by now, it returns True
WaitForModel_Entry(s) ==
    /\ proc_pc[s] = "wait_entry"
    /\ proc_pc' = [proc_pc EXCEPT ![s] =
                      IF is_model_ready THEN "lock" ELSE "wait_loading"]
    /\ UNCHANGED <<loaderVars, recorderVars, client_pc, envVars, hotkeyVars,
                   serviceVars, statusVars, pollVars, proc_audio, proc_result,
                   historyVars>>

\* wait_for_model, lines 73-75: not loading, it returns False and transcribe
\* raises
WaitForModel_CheckLoading(s) ==
    /\ proc_pc[s] = "wait_loading"
    /\ IF is_model_loading
       THEN /\ proc_pc' = [proc_pc EXCEPT ![s] = "wait_loop"]
            /\ UNCHANGED proc_result
       ELSE TranscribeRaises(s)
    /\ UNCHANGED <<loaderVars, recorderVars, client_pc, envVars, hotkeyVars,
                   serviceVars, statusVars, pollVars, proc_audio, historyVars>>

\* wait_for_model, lines 80-85: one turn of the loop; timed_out: the 30
\* seconds are over
WaitForModel_Loop(s, timed_out) ==
    /\ proc_pc[s] = "wait_loop"
    /\ IF is_model_loading
       THEN IF timed_out THEN TranscribeRaises(s)
            ELSE UNCHANGED <<proc_pc, proc_result>>
       ELSE /\ proc_pc' = [proc_pc EXCEPT ![s] = "wait_return"]
            /\ UNCHANGED proc_result
    /\ UNCHANGED <<loaderVars, recorderVars, client_pc, envVars, hotkeyVars,
                   serviceVars, statusVars, pollVars, proc_audio, historyVars>>

\* wait_for_model, line 87: the loop is over, the ready flag is the answer
WaitForModel_Return(s) ==
    /\ proc_pc[s] = "wait_return"
    /\ IF is_model_ready
       THEN /\ proc_pc' = [proc_pc EXCEPT ![s] = "lock"]
            /\ UNCHANGED proc_result
       ELSE TranscribeRaises(s)
    /\ UNCHANGED <<loaderVars, recorderVars, client_pc, envVars, hotkeyVars,
                   serviceVars, statusVars, pollVars, proc_audio, historyVars>>

\* transcribe, lines 102-119: under the lock, without a model the method
\* raises, else the backend is called; it returns the segments or raises
\* (raises).  The segments' texts joined are raw; the text is stripped and,
\* unless empty, formatted.  This takes the method's rest in one step;
\* Transcribe_Invoke and Transcribe_Segments take it in two
Transcribe_Model(s, raises, raw) ==
    /\ proc_pc[s] = "lock"
    /\ model_load_lock = <<>>
    /\ proc_pc' = [proc_pc EXCEPT ![s] = "callback"]
    /\ proc_backend' = [proc_backend EXCEPT ![s] =
                           IF model = "None" THEN "none"
                           ELSE IF raises THEN "raised" ELSE "returned"]
    /\ proc_result' = [proc_result EXCEPT ![s] =
                          IF model = "None" \/ raises THEN None
                          ELSE TranscribeReturns(raw)]
    /\ UNCHANGED <<loaderVars, recorderVars, client_pc, envVars, hotkeyVars,
                   serviceVars, statusVars, pollVars, proc_audio, session_owner,
                   sess_stop, completions, completion_status, delivered>>

\* transcribe, lines 103-107, alone: under the lock, without a model the
\* method raises, else WhisperModel.transcribe (faster_whisper, imported at
\* line 6) is called; it raises or returns the segments, and the with block
\* releases the lock
Transcribe_Invoke(s, raises) ==
    /\ proc_pc[s] = "lock"
    /\ model_load_lock = <<>>
    /\ proc_backend' = [proc_backend EXCEPT ![s] =
                           IF model = "None" THEN "none"
                           ELSE IF raises THEN "raised" ELSE "returned"]
    /\ IF model = "None" \/ raises
       THEN TranscribeRaises(s)
       ELSE /\ proc_pc' = [proc_pc EXCEPT ![s] = "segments"]
            /\ UNCHANGED proc_result
    /\ UNCHANGED <<loaderVars, recorderVars, client_pc, envVars, hotkeyVars,
                   serviceVars, statusVars, pollVars, proc_audio, session_owner,
                   sess_stop, completions, completion_status, delivered>>

\* transcribe, lines 109-119, outside the lock: the list comprehension
\* iterates the segments, which the backend produces as they are asked for;
\* the iteration raises, or the texts joined are raw
Transcribe_Segments(s, raises, raw) ==
    /\ proc_pc[s] = "segments"
    /\ proc_pc' = [proc_pc EXCEPT ![s] = "callback"]
    /\ proc_backend' = [proc_backend EXCEPT ![s] =
                           IF raises THEN "raised" ELSE "returned"]
    /\ proc_result' = [proc_result EXCEPT ![s] =
                          IF raises THEN None ELSE TranscribeReturns(raw)]
    /\ UNCHANGED <<loaderVars, recorderVars, client_pc, envVars, hotkeyVars,
                   serviceVars, statusVars, pollVars, proc_audio, session_owner,
                   sess_stop, completions, completion_status, delivered>>

\* _process_audio, lines 75 and 79: the completion callback
ProcessAudio_Callback(s, send_ok) ==
    /\ proc_pc[s] = "callback"
    /\ OnTranscriptionComplete(s, proc_result[s])
    /\ EmitStatus(CompletionStatus(proc_result[s], send_ok))
    /\ proc_pc' = [proc_pc EXCEPT ![s] = "done"]
    /\ proc_audio' = [proc_audio EXCEPT ![s] = EmptyArray]
    /\ proc_result' = [proc_result EXCEPT ![s] = None]
    /\ UNCHANGED <<loaderVars, recorderVars, client_pc, envVars, hotkeyVars,
                   is_running, current_prefix, auto_send, pollVars,
                   session_owner, sess_stop, proc_backend>>

ProcessorThreadSteps ==
    \/ \E s \in Sessions : Transcribe_Begin(s)
    \/ \E s \in Sessions : Transcribe_CheckLoading(s)
    \/ \E s \in Sessions : WaitForModel_Entry(s)
    \/ \E s \in Sessions : WaitForModel_CheckLoading(s)
    \/ \E s \in Sessions, timed_out \in BOOLEAN : WaitForModel_Loop(s, timed_out)
    \/ \E s \in Sessions : WaitForModel_Return(s)
    \/ \E s \in Sessions, raises \in BOOLEAN, raw \in RawTexts : Transcribe_Model(s, raises, raw)
    \/ \E s \in Sessions, send_ok \in BOOLEAN : ProcessAudio_Callback(s, send_ok)

\* ---- a thread that uses the coordinator directly

User_StartRecording(outcome) ==
    /\ client_pc = "idle"
    /\ ~is_recording
    /\ (is_model_ready /\ outcome = "ok") => n_sessions < MaxSessions
    /\ ProcessorStartRecording(outcome)
    /\ client_pc' = IF ProcessorStartRaises(outcome)
                    THEN "start_raised" ELSE "start_returned"
    /\ UNCHANGED notRecorder

\* stop_recording_and_process without the guard of lines 53-55: the call
\* goes on into stop_recording
User_StopAndProcess_NoGuard ==
    /\ client_pc = "idle"
    /\ ~is_recording
    /\ StopRecording_Begin
    /\ client_pc' = "stop_returned"
    /\ UNCHANGED notRecorder

\* stop_recording_and_process, lines 53-55, called while not recording: it
\* returns
User_StopAndProcess_NotRecording ==
    /\ client_pc = "idle"
    /\ ~is_recording
    /\ client_pc' = "stop_returned"
    /\ UNCHANGED <<notRecorder, recorderVars>>

User_StopAndProcess_Begin ==
    /\ client_pc = "idle"
    /\ is_recording
    /\ StopAndProcess_Begin
    /\ client_pc' = "close"
    /\ UNCHANGED <<loaderVars, envVars, hotkeyVars, serviceVars, statusVars,
                   pollVars, procVars, session_owner, proc_backend,
                   completions, completion_status, delivered>>

User_StopAndProcess_Close(ok) ==
    /\ client_pc = "close"
    /\ StopAndProcess_Close(ok)
    /\ IF StopRecordingCloseRaises(ok)
       THEN /\ EmitStatus(CompletionStatus(None, TRUE))
            /\ client_pc' = "idle"
       ELSE /\ client_pc' = "drain"
            /\ UNCHANGED statusVars
    /\ UNCHANGED <<loaderVars, envVars, hotkeyVars, is_running, current_prefix,
                   auto_send, pollVars, procVars, session_owner, proc_backend>>

User_StopAndProcess_Drain ==
    /\ client_pc = "drain"
    /\ StopAndProcess_Drain
    /\ IF StopAndProcessDrainRaises
       THEN EmitStatus(CompletionStatus(None, TRUE))
       ELSE UNCHANGED statusVars
    /\ client_pc' = "idle"
    /\ UNCHANGED <<loaderVars, envVars, hotkeyVars, is_running, current_prefix,
                   auto_send, pollVars, proc_result, session_owner,
                   proc_backend>>

UserSteps ==
    \/ \E outcome \in {"ok", "open_fails", "start_fails"} : User_StartRecording(outcome)
    \/ User_StopAndProcess_NotRecording
    \/ Client_Return
    \/ User_StopAndProcess_Begin
    \/ \E ok \in BOOLEAN : User_StopAndProcess_Close(ok)
    \/ User_StopAndProcess_Drain

\* ------------------------------------------------------ specifications

Init ==
    /\ LoaderInit
    /\ RecorderInit
    /\ client_pc = "idle"
    /\ ServiceInit
    /\ TextInit

\* the text functions, called with every string of TextInputs
TextNext ==
    \/ \E text \in TextInputs : Text_Format(text)
    \/ \E raw \in TextInputs : Text_Transcribe(raw)
    \/ Text_FormatAgain

SpecText == Init /\ [][TextNext]_vars

\* the recognizer, initialize_model called from MaxCallers threads
LoaderNext ==
    \/ \E c \in Callers : InitializeModelAsync_Guard(c)
    \/ \E c \in Callers : InitializeModelAsync_Start(c)
    \/ LoaderThreadSteps

SpecLoader == Init /\ [][LoaderNext]_vars

\* the recognizer: transcribe called by MaxSessions threads with any array,
\* initialize_model called from MaxCallers threads
RecognizerNext ==
    \/ \E c \in Callers : InitializeModelAsync_Guard(c)
    \/ \E c \in Callers : InitializeModelAsync_Start(c)
    \/ LoaderThreadSteps
    \/ \E s \in Sessions, audio_data \in AudioInputs : Transcribe_Call(s, audio_data)
    \/ ProcessorThreadSteps

SpecRecognizer == Init /\ [][RecognizerNext]_vars

\* the recognizer with the backend's call and the iteration of its segments
\* as two steps of a transcribe call
BackendNext ==
    \/ \E c \in Callers : InitializeModelAsync_Guard(c)
    \/ \E c \in Callers : InitializeModelAsync_Start(c)
    \/ LoaderThreadSteps
    \/ \E s \in Sessions, audio_data \in AudioInputs : Transcribe_Call(s, audio_data)
    \/ \E s \in Sessions : Transcribe_Begin(s)
    \/ \E s \in Sessions : Transcribe_CheckLoading(s)
    \/ \E s \in Sessions : WaitForModel_Entry(s)
    \/ \E s \in Sessions : WaitForModel_CheckLoading(s)
    \/ \E s \in Sessions, timed_out \in BOOLEAN : WaitForModel_Loop(s, timed_out)
    \/ \E s \in Sessions : WaitForModel_Return(s)
    \/ \E s \in Sessions, raises \in BOOLEAN : Transcribe_Invoke(s, raises)
    \/ \E s \in Sessions, raises \in BOOLEAN, raw \in RawTexts :
           Transcribe_Segments(s, raises, raw)
    \/ \E s \in Sessions, send_ok \in BOOLEAN : ProcessAudio_Callback(s, send_ok)

SpecBackend == Init /\ [][BackendNext]_vars

\* the recorder: one thread using it and the audio thread
CaptureNext == AudioSteps \/ ClientSteps

SpecCapture == Init /\ [][CaptureNext]_vars

\* the hotkey manager: the keyboard, a thread calling check_hotkeys, a
\* thread calling update_hotkey_mappings through the service
MonitorNext ==
    \/ Monitor_Start
    \/ \E k \in Keys : KeyDown(k)
    \/ \E k \in Keys : KeyUp(k)
    \/ CheckHotkeys_Begin
    \/ \E raises \in {"none", "query", "callback"} : CheckHotkeys_Key(raises)
    \/ \E new_mappings \in CandidateMappings :
           Service_UpdateHotkeyMappings(new_mappings)

SpecMonitor == Init /\ [][MonitorNext]_vars

\* the coordinator: one thread using it, the audio thread, the
\* AudioProcessor threads, and initialize_model called from MaxCallers threads
ProcessorNext ==
    \/ \E c \in Callers : InitializeModelAsync_Guard(c)
    \/ \E c \in Callers : InitializeModelAsync_Start(c)
    \/ LoaderThreadSteps
    \/ UserSteps
    \/ FirstChunk
    \/ AudioCallback_Append
    \/ ProcessorThreadSteps

SpecProcessor == Init /\ [][ProcessorNext]_vars

\* the service: a thread that starts and stops it, its poll threads, the
\* audio thread, the load thread and the AudioProcessor threads
ServiceNext ==
    \/ Ui_InitializeModel_Guard
    \/ Ui_InitializeModel_Start
    \/ LoaderThreadSteps
    \/ FocusChange
    \/ Service_Start
    \/ Service_Stop_Begin
    \/ Service_Return
    \/ Service_Stop_Clear
    \/ Service_Stop_Cleanup
    \/ \E ok \in BOOLEAN : Service_Stop_CleanupClose(ok)
    \/ Service_Stop_CleanupDrain
    \/ \E timed_out \in BOOLEAN : Service_Stop_Join(timed_out)
    \/ Poll_LoopCheck
    \/ Poll_Lock
    \/ Poll2_LoopCheck
    \/ Poll2_Lock
    \/ Poll_NoEdge
    \/ Poll_QueryRaises
    \/ \E outcome \in {"ok", "open_fails", "start_fails"} : Service_PressEdge(outcome)
    \/ Poll_ReleaseEdge
    \/ \E ok \in BOOLEAN : Poll_StopClose(ok)
    \/ Poll_StopDrain
    \/ FirstChunk
    \/ AudioCallback_Append
    \/ \E s \in Sessions : Transcribe_Begin(s)
    \/ \E s \in Sessions, raises \in BOOLEAN, raw \in RawTexts : Transcribe_Model(s, raises, raw)
    \/ \E s \in Sessions, send_ok \in BOOLEAN : ProcessAudio_Callback(s, send_ok)

SpecService == Init /\ [][ServiceNext]_vars

\* the steps of the poll thread when no call of the keyboard raises
KeysPollSteps ==
    \/ Poll_TickBegin
    \/ Keys_NoEdge
    \/ \E outcome \in {"ok", "open_fails", "start_fails"} : Keys_PressEdge(outcome)
    \/ Keys_ReleaseEdge
    \/ \E ok \in BOOLEAN : Poll_StopClose(ok)
    \/ Poll_StopDrain

\* the service running with the keyboard: the keys go down and up, the poll
\* thread reads them, the bindings are replaced by any of MappingSets
KeysNext ==
    \/ Ui_InitializeModel_Guard
    \/ Ui_InitializeModel_Start
    \/ LoaderThreadSteps
    \/ Ui_StartVoiceChat
    \/ FocusChange
    \/ \E k \in Keys : KeyDown(k)
    \/ \E k \in Keys : KeyUp(k)
    \/ KeysPollSteps
    \/ Keys_QueryRaises
    \/ \E new_mappings \in MappingSets : Keys_UpdateHotkeyMappings(new_mappings)

SpecKeys == Init /\ [][KeysNext]_vars

\* the poll thread is a thread of its own that sleeps 0.01 s between ticks:
\* whenever it can take a step, it takes one
SpecKeysLive == SpecKeys /\ WF_vars(KeysPollSteps)

\* the application
Next ==
    \/ Ui_InitializeModel_Guard
    \/ Ui_InitializeModel_Start
    \/ LoaderThreadSteps
    \/ Ui_StartVoiceChat
    \/ Ui_ToggleAutoSend
    \/ StatusReset
    \/ FocusChange
    \/ Poll_TickBegin
    \/ Poll_NoEdge
    \/ \E outcome \in {"ok", "open_fails", "start_fails"} : Poll_PressEdge(outcome)
    \/ Poll_ReleaseEdge
    \/ \E ok \in BOOLEAN : Poll_StopClose(ok)
    \/ Poll_StopDrain
    \/ FirstChunk
    \/ AudioCallback_Append
    \/ \E s \in Sessions : Transcribe_Begin(s)
    \/ \E s \in Sessions, raises \in BOOLEAN, raw \in RawTexts : Transcribe_Model(s, raises, raw)
    \/ \E s \in Sessions, send_ok \in BOOLEAN : ProcessAudio_Callback(s, send_ok)

Spec == Init /\ [][Next]_vars

\* ------------------------------------------------ claims: the service

\* session s is being recorded
Recording(s) == is_recording /\ n_sessions = s

\* stop_recording_and_process has begun for session s and its completion
\* callback has not fired
Processing(s) == sess_stop[s] # "none" /\ completions[s] = <<>>

\* C1: at most one session is Recording or Processing at any time: no
\* recording is accepted while an earlier session's stop_recording_and_process
\* has begun and its completion callback has not fired.
C1_SessionsSerialized ==
    Cardinality({s \in Sessions : Recording(s) \/ Processing(s)}) <= 1

\* C2: the message handed to the sender for a session is the session's text
\* with the prefix of the binding whose accepted press started the session.
C2_DeliveredWithOwnPrefix ==
    \A i \in DOMAIN delivered :
        LET s == delivered[i].session
        IN  \E j \in DOMAIN completions[s] :
                /\ ~completions[s][j].is_none
                /\ delivered[i].message =
                       FormatMessage(completions[s][j].text, session_owner[s].prefix)

\* check_hotkeys takes a release edge of the binding it is at
ReleaseEdgeStep ==
    /\ poll_pc = "key"
    /\ PollKey \in pressed_keys
    /\ PollKey \notin pressed_keys'

\* C3: a release edge of a binding other than the one whose accepted press
\* started the current recording does not stop the recording and does not
\* change the active channel.
C3_ForeignReleaseIsNoOp ==
    [][(ReleaseEdgeStep /\ is_recording /\ session_owner[n_sessions].key # PollKey)
          => (is_recording' /\ current_prefix' = current_prefix)]_vars

\* the completion callback of session s is still to come
CallbackPending(s) ==
    \/ sess_stop[s] = "begun"
    \/ sess_stop[s] = "task" /\ proc_pc[s] # "done"

\* what stop_recording_and_process and the thread it starts have led to, for
\* each session: no callback before the drain is over; None, at once and
\* without a thread, when the drain fails; else one callback from the
\* thread, with text if the backend returned and None if transcription failed
C4_ExactlyOnce ==
    \A s \in Sessions :
        /\ Len(completions[s]) <= 1
        /\ sess_stop[s] \in {"none", "begun"} =>
               completions[s] = <<>> /\ proc_pc[s] = "unborn"
        /\ sess_stop[s] = "drain_failed" =>
               completions[s] = <<None>> /\ proc_pc[s] = "unborn"
        /\ sess_stop[s] = "task" =>
               /\ proc_pc[s] # "unborn"
               /\ proc_pc[s] # "done" => completions[s] = <<>>
               /\ proc_pc[s] = "done" =>
                      /\ Len(completions[s]) = 1
                      /\ completions[s][1].is_none = (proc_backend[s] # "returned")

\* a callback still to come is not stuck: a step of the stop call, of the
\* AudioProcessor threads, or of a thread they wait for, can be taken
C4_NotStuck ==
    (\E s \in Sessions : CallbackPending(s)) =>
        ENABLED (\/ \E ok \in BOOLEAN : User_StopAndProcess_Close(ok)
                 \/ User_StopAndProcess_Drain
                 \/ AudioCallback_Append
                 \/ LoaderThreadSteps
                 \/ ProcessorThreadSteps)

\* C4: every stop_recording_and_process call made while recording leads to
\* the completion callback firing exactly once: with the text when
\* transcription succeeds, with None when the drain fails (at once, no thread
\* started) or when transcription fails.
C4_CallbackFiresExactlyOnce == C4_ExactlyOnce /\ C4_NotStuck

\* one session ended in a failed drain, another in a transcription
C4_Witness ==
    \E s, t \in Sessions :
        /\ sess_stop[s] = "drain_failed" /\ completions[s] = <<None>>
        /\ sess_stop[t] = "task" /\ proc_pc[t] = "done"
        /\ completions[t] = <<Text(<<"H", "i", ".">>)>>

\* ------------------------------------------------------ claims: the loader

\* C5: while no load attempt has ended failed (every accepted call of
\* initialize_model_async found the loader never loaded), the calls made so
\* far have caused at most one model construction and at most one invocation
\* of the readiness observer.
C5_OneConstructionOneNotification ==
    calls_at_last_fail = -1 =>
        /\ construct_attempts <= 1
        /\ Len(ready_calls) <= 1

\* C6: Ready is terminal: a step never takes is_model_ready from TRUE to FALSE.
C6_ReadyIsTerminal == [][is_model_ready => is_model_ready']_vars

\* C7: once a load attempt has ended failed, a model construction starts only
\* after initialize_model_async was called again, i.e. after a call accepted
\* later than that failure.
C7_NoConstructionWithoutNewCall ==
    [][(construct_attempts' > construct_attempts /\ calls_at_last_fail # -1)
          => accepted_calls > calls_at_last_fail]_vars

\* C8: every load thread invokes the observer at most once, has invoked it
\* when it is done, and passes TRUE if its own construction succeeded and
\* FALSE if its own construction failed.
C8_ObserverGetsOwnOutcome ==
    /\ \A i, j \in DOMAIN ready_calls :
          ready_calls[i].thread = ready_calls[j].thread => i = j
    /\ \A t \in LoadThreads :
          load_pc[t] = "done" => \E i \in DOMAIN ready_calls : ready_calls[i].thread = t
    /\ \A i \in DOMAIN ready_calls :
          /\ load_outcome[ready_calls[i].thread] = "ok" => ready_calls[i].value
          /\ load_outcome[ready_calls[i].thread] = "fail" => ~ready_calls[i].value

\* ------------------------------------------- claims: the press handler

\* check_hotkeys takes a press edge of the binding it is at
PressEdgeStep ==
    /\ poll_pc = "key"
    /\ PollKey \notin pressed_keys
    /\ PollKey \in pressed_keys'

SamplesInArrivalOrder(chunks) ==
    LET total(k) == LET RECURSIVE sum(_)
                        sum(i) == IF i = 0 THEN 0 ELSE Len(chunks[i]) + sum(i - 1)
                    IN sum(k)
        n == total(Len(chunks))
        chunkOf(p) == CHOOSE k \in 1..Len(chunks) : total(k - 1) < p /\ p <= total(k)
    IN [p \in 1..n |-> chunks[chunkOf(p)][p - total(chunkOf(p) - 1)]]

IsPrefix(a, b) == Len(a) <= Len(b) /\ SubSeq(b, 1, Len(a)) = a

\* C10: a stop_recording that returns the recording's audio returns exactly
\* the samples of the chunks the callback appended during the session, in
\* arrival order, and the chunks appended before stop_recording was called
\* come first in it, none lost, repeated or out of place.
C10_StopReturnsChunksInOrder ==
    (last_stop.kind = "data" /\ ~last_stop.guarded) =>
        /\ last_stop.data.data = SamplesInArrivalOrder(last_stop.appended)
        /\ IsPrefix(SamplesInArrivalOrder(last_stop.at_call), last_stop.data.data)

\* C10's case: a stop that returned two chunks, the second appended by a
\* callback that was in progress when stop_recording was called
C10_Witness ==
    /\ last_stop.kind = "data" /\ ~last_stop.guarded
    /\ Len(last_stop.appended) = 2
    /\ Len(last_stop.at_call) = 1
    /\ Len(last_stop.data.data) > 2

\* the thread using the recorder or the coordinator has made a call of
\* start_recording, which ended as client_pc' says
StartCallStep ==
    /\ client_pc = "idle"
    /\ client_pc' \in {"start_returned", "start_raised"}

\* C11: start_recording called while a stream is already open raises
\* AudioProcessingError and leaves the open stream and the buffer untouched.
C11_StartWhileOpenFails ==
    [][(StartCallStep /\ stream # "None")
          => (client_pc' = "start_raised" /\ UNCHANGED <<stream, audio_buffer>>)]_vars

\* C12: stop_recording called when no stream is open (before any start, or a
\* second stop after a stop) raises AudioProcessingError: a stop that found no
\* stream open does not end in an array returned.
C12_StopWithoutStreamFails ==
    (last_stop.kind # "none" /\ stream = "None" /\ ~is_recording)
        => (last_stop.kind = "data" => ~last_stop.guarded)

ModelState ==
    IF is_model_ready THEN "Ready"
    ELSE IF is_model_loading THEN "Loading"
    ELSE IF \E t \in LoadThreads : load_outcome[t] = "fail" THEN "Failed"
    ELSE "Unloaded"

\* the thread of session s takes a step
ThreadStep(s) == proc_pc'[s] # proc_pc[s]

\* C14: transcribe with an empty sample array raises AudioProcessingError in
\* every state of the model (Unloaded, Loading, Ready, Failed), without
\* waiting for the model and without invoking the backend: from its entry
\* the call goes straight to _process_audio's except branch.
C14_EmptyInputFails ==
    [][\A s \in Sessions :
          (proc_pc[s] = "transcribe" /\ Size(proc_audio[s]) = 0 /\ ThreadStep(s))
             => /\ proc_pc'[s] = "callback"
                /\ proc_result'[s] = None
                /\ proc_backend'[s] = "none"]_vars

\* C14's case: transcribe has raised for an empty array in one thread, whose
\* callback got None, and in another with the model ready
C14_Witness ==
    \E s, t \in Sessions :
        /\ proc_pc[s] = "done" /\ completions[s] = <<None>>
        /\ proc_backend[s] = "none"
        /\ proc_pc[t] = "callback" /\ Size(proc_audio[t]) = 0
        /\ proc_result[t] = None
        /\ ModelState = "Ready"

\* wait_for_model returns True to the thread of session s
WaitReturnsTrue(s) ==
    /\ proc_pc[s] \in {"wait_entry", "wait_return"}
    /\ proc_pc'[s] = "lock"

\* wait_for_model returns False to the thread of session s
WaitReturnsFalse(s) ==
    /\ proc_pc[s] \in {"wait_loading", "wait_loop", "wait_return"}
    /\ proc_pc'[s] = "callback"

\* wait_for_model's loop ends by the timeout
WaitTimesOut(s) ==
    /\ proc_pc[s] = "wait_loop"
    /\ is_model_loading
    /\ proc_pc'[s] = "callback"

\* transcribe raises before it has come to the backend
FailsBeforeBackend(s) ==
    /\ proc_pc[s] \in {"check_loading", "wait_loading", "wait_loop", "wait_return"}
    /\ proc_pc'[s] = "callback"

\* transcribe calls the backend
InvokesBackend(s) ==
    /\ proc_pc[s] = "lock"
    /\ proc_backend'[s] \in {"raised", "returned"}

\* C15: transcribe with non-empty samples that found the model not ready: if
\* no load was started or the load has failed it raises at once; if the model
\* is loading it waits; it raises before the backend only on a timeout or
\* with the model not Ready (never loaded, or failed), so that a load that
\* ends Ready leads to the backend, called once; and the backend is never
\* called while the model is not Ready.
C15_NotReadyTranscribe ==
    [][\A s \in Sessions :
          /\ (proc_pc[s] = "check_loading" /\ ThreadStep(s)) =>
                /\ ModelState \in {"Unloaded", "Failed"} =>
                       proc_pc'[s] = "callback" /\ proc_result'[s] = None
                /\ ModelState = "Loading" => proc_pc'[s] = "wait_entry"
          /\ FailsBeforeBackend(s) =>
                (WaitTimesOut(s) \/ ModelState \in {"Unloaded", "Failed"})
          /\ InvokesBackend(s) =>
                (ModelState = "Ready" /\ proc_backend[s] = "none")]_vars

\* C16: wait_for_model returns True iff the model is Ready when it returns;
\* it returns False once the timeout is over with the loader still loading,
\* after a failed load, and at once when no load was ever started: a False
\* comes with the model not Ready, by timeout or with no load in progress.
C16_WaitResult ==
    [][\A s \in Sessions :
          /\ WaitReturnsTrue(s) => ModelState = "Ready"
          /\ WaitReturnsFalse(s) =>
                /\ ModelState # "Ready"
                /\ WaitTimesOut(s) \/ ModelState \in {"Unloaded", "Failed"}
          /\ (proc_pc[s] = "wait_loop" /\ ThreadStep(s) /\ ModelState = "Loading")
                => proc_pc'[s] \in {"wait_loop", "callback"}]_vars

\* ------------------------------------------------ claims: the coordinator

\* C17: AudioProcessor.start_recording, called while idle, raises
\* AudioProcessingError when the model is not ready, before anything of the
\* recorder has changed, and when the recorder's start_recording fails (it
\* returns only with the recording started); after either failure the
\* coordinator is idle: is_recording is false and no stream is collecting.
C17_FailedStartStaysIdle ==
    [][(StartCallStep /\ ~is_recording) =>
          /\ ~is_model_ready =>
                 (client_pc' = "start_raised" /\ UNCHANGED recorderVars)
          /\ client_pc' = "start_returned" =>
                 (is_recording' /\ stream' = "Open")
          /\ client_pc' = "start_raised" =>
                 /\ ~is_recording'
                 /\ stream' # "Open"
                 /\ n_sessions' = n_sessions
                 /\ cb_pc' = "idle"]_vars

\* C17's case: with the model ready the stream of a second recording failed
\* to start, and the call has raised
C17_Witness ==
    /\ client_pc = "start_raised"
    /\ is_model_ready
    /\ stream = "Unstarted"
    /\ n_sessions = 1
    /\ ~is_recording

\* stop_recording_and_process is called while not recording and returns
StopIgnoredStep ==
    /\ client_pc = "idle"
    /\ ~is_recording
    /\ client_pc' = "stop_returned"

\* C18: stop_recording_and_process called while the coordinator is not
\* recording changes nothing: the completion callback is not invoked, no
\* AudioProcessor thread is started, and the recorder's stream, flag and
\* buffer are as they were.
C18_StopWhileIdleIsNoOp ==
    [][StopIgnoredStep =>
          UNCHANGED <<recorderVars, procVars, historyVars, serviceVars,
                      statusVars>>]_vars

\* C18's case: the call has returned after one recording was stopped and
\* transcribed, with audio of a broken stream still in the buffer
C18_Witness ==
    /\ client_pc = "stop_returned"
    /\ n_sessions = 2
    /\ completions[1] # <<>>
    /\ stream = "Broken"
    /\ audio_buffer # <<>>

\* ------------------------------------------- claims: the hotkey manager

\* check_hotkeys goes through the binding it is at
KeyCheckStep == poll_pc = "key" /\ poll_idx' # poll_idx

\* the start callback is invoked for the binding check_hotkeys is at
MonitorPressEdge ==
    /\ KeyCheckStep
    /\ edge_parity' # edge_parity
    /\ last_edge'[PollKey] = "press"

\* the stop callback is invoked for the binding check_hotkeys is at
MonitorReleaseEdge ==
    /\ KeyCheckStep
    /\ edge_parity' # edge_parity
    /\ last_edge'[PollKey] = "release"

\* C19: while monitoring and between calls of update_hotkey_mappings,
\* check_hotkeys invokes for each binding the start callback iff the key is
\* down and not tracked, and the stop callback iff it is up and tracked; so
\* the two callbacks of one key alternate, the start callback first, and a
\* key held down over any number of ticks gets one start callback.
C19_EdgesAlternate ==
    [][(KeyCheckStep /\ hm_is_running) =>
          /\ MonitorPressEdge <=>
                 (PollKey \in keys_down /\ PollKey \notin pressed_keys)
          /\ MonitorReleaseEdge <=>
                 (PollKey \notin keys_down /\ PollKey \in pressed_keys)
          /\ MonitorPressEdge => last_edge[PollKey] # "press"
          /\ MonitorReleaseEdge => last_edge[PollKey] = "press"
          /\ held_presses'[PollKey] <= 1]_vars

\* update_hotkey_mappings is called and returns
UpdateStep == bindings_parity' # bindings_parity

\* C20: update_hotkey_mappings replaces the bindings outside any tick of
\* check_hotkeys, so that a tick iterates the bindings it began with, and
\* clears _pressed_keys; after an update made while a key was tracked, the
\* stop callback is invoked for that key only after the start callback was
\* invoked for it since the update.
C20_UpdateAbandonsPress ==
    [][/\ poll_pc' = "key" => hotkey_mappings' = tick_mappings'
       /\ UpdateStep => (poll_pc # "key" /\ pressed_keys' = {})
       /\ MonitorReleaseEdge => last_edge[PollKey] = "press"]_vars

\* C20's case: the bindings were updated while a key was held and tracked,
\* the key is still down, and no callback has been invoked for it since
C20_Witness ==
    \E k \in Keys :
        /\ k \in abandoned
        /\ k \in keys_down
        /\ held_presses[k] = 0
        /\ last_edge[k] = "none"
        /\ k \notin pressed_keys
        /\ poll_pc = "sleep"
        /\ hotkey_mappings # tick_mappings

\* ------------------------------------------- claims: the text functions

\* Claim C28: text normalization is idempotent: for every non-empty string
\* of the bounded alphabet, _format_text applied to what _format_text
\* returned returns it unchanged.
C28_NormalizeIdempotent ==
    (text_call.op = "format" /\ Len(text_call.results) = 2) =>
        text_call.results[2] = text_call.results[1]

\* a string the first normalization changed (capital and ending) has been
\* normalized twice
C28_Witness ==
    /\ text_call.op = "format"
    /\ text_call.arg = <<"h", " ", "h">>
    /\ Len(text_call.results) = 2
    /\ text_call.results[1].text = <<"H", " ", "h", ".">>

\* the backend's text, trimmed
Trimmed(raw) ==
    LET blank(i) == raw[i] = " "
        first == {i \in 1..Len(raw) : ~blank(i)}
    IN IF first = {} THEN <<>>
       ELSE LET a == CHOOSE i \in first : \A j \in first : i <= j
                b == CHOOSE i \in first : \A j \in first : i >= j
            IN [i \in 1..(b - a + 1) |-> raw[a + i - 1]]

\* Claim C29: for a backend text that is not empty once trimmed, transcribe
\* returns the trimmed text with its first character upper-cased, and with
\* "." appended exactly when the trimmed text does not end in ".", "!" or
\* "?"; no other character is changed.  A backend text that is empty once
\* trimmed is returned as the empty string, not as a failure.
C29_TranscribeNormalizes ==
    text_call.op = "transcribe" =>
        LET x == Trimmed(text_call.arg)
            r == text_call.results[1]
            ended == x[Len(x)] \in {".", "!", "?"}
        IN /\ ~r.is_none
           /\ IF x = <<>> THEN r.text = <<>>
              ELSE /\ Len(r.text) = Len(x) + (IF ended THEN 0 ELSE 1)
                   /\ r.text[1] = Upper(x[1])
                   /\ \A i \in 2..Len(x) : r.text[i] = x[i]
                   /\ ~ended => r.text[Len(r.text)] = "."

\* a backend text with a blank before it, a small first letter and no
\* ending has been transcribed
C29_Witness ==
    /\ text_call.op = "transcribe"
    /\ text_call.arg = <<" ", "h", "h">>
    /\ text_call.results = <<Text(<<"H", "h", ".">>)>>

\* ------------------------------------- claims: the completion callback

\* the completion callback of session s is invoked in this step
CompletionStep(s) == Len(completions'[s]) = Len(completions[s]) + 1
\* what it is invoked with
CompletionResult(s) == completions'[s][Len(completions'[s])]

\* the example of claim C27, by the functions alone: the backend text
\* "hello world" under the prefix "!"
C27_Example ==
    FormatMessage(TranscribeReturns(<<"h", "e", "l", "l", "o", " ",
                                      "w", "o", "r", "l", "d">>).text, <<"!">>)
        = <<"!", " ", "H", "e", "l", "l", "o", " ", "w", "o", "r", "l", "d", ".">>

\* Claim C27: when a session completes with a non-empty text t, the message
\* sender is handed exactly p, a blank and t when the active prefix p is not
\* empty, and exactly t when it is, with the auto-send flag as set_auto_send
\* last set it before the completion; the prefix "!" and the backend text
\* "hello world" give "! Hello world.".
C27_DeliveredMessage ==
    [][\A s \in Sessions :
          (CompletionStep(s) /\ ~Falsy(CompletionResult(s))) =>
              LET t == CompletionResult(s).text
                  p == current_prefix
              IN delivered' = Append(delivered,
                                     [session |-> s,
                                      message |-> IF p # <<>> THEN p \o <<" ">> \o t
                                                  ELSE t,
                                      auto_send |-> auto_send])]_vars

\* the example holds; a text was delivered with a prefix after auto-send
\* was switched off, and a text was delivered without a prefix
C27_Witness ==
    /\ C27_Example
    /\ \E i \in DOMAIN delivered :
           /\ delivered[i].message = <<"!", " ", "H", "i", ".">>
           /\ ~delivered[i].auto_send
    /\ \E i \in DOMAIN delivered : delivered[i].message = <<"H", "i", ".">>

\* Claim C30: when a session completes with an empty text or with the
\* failure signal, nothing is handed to the message sender and a "No speech
\* detected" status event is emitted.
C30_EmptyCompletionSendsNothing ==
    [][\A s \in Sessions :
          (CompletionStep(s) /\ Falsy(CompletionResult(s))) =>
              /\ delivered' = delivered
              /\ completion_status'[s] =
                     Append(completion_status[s], "No speech detected")]_vars

\* one session completed with the failure signal and one with an empty
\* text, and neither was delivered
C30_Witness ==
    \E s, t \in Sessions :
        /\ completions[s] = <<None>>
        /\ completions[t] = <<Text(<<>>)>>
        /\ completion_status[s] = <<"No speech detected">>
        /\ completion_status[t] = <<"No speech detected">>
        /\ delivered = <<>>

\* ------------------------------------------- claims: the bindings

\* update_hotkey_mappings is called in this step
UpdateCallStep == last_update'.parity # last_update.parity

\* a binding set that is empty or holds a key that is not a key name
InvalidBindings(mappings) ==
    Cardinality(DOMAIN mappings) = 0 \/ "" \in DOMAIN mappings

\* Claim C21: constructing the monitor, or calling update_hotkey_mappings,
\* with an empty binding set or an invalid key fails with HotkeyError, and
\* a failed update leaves the monitor's bindings, its tracked keys and the
\* service's own copy of the bindings unchanged.
C21_InvalidBindingsRejected ==
    [][UpdateCallStep =>
          /\ \A mappings \in CandidateMappings :
                 ConstructorRaises(mappings) = InvalidBindings(mappings)
          /\ last_update'.raised = InvalidBindings(last_update'.arg)
          /\ last_update'.raised =>
                 UNCHANGED <<hotkey_mappings, pressed_keys, svc_hotkey_mappings>>]_vars

\* the part of claim C21 the monitor keeps: a failed update leaves its
\* bindings and its tracked keys unchanged
C21_MonitorUnchanged ==
    [][(UpdateCallStep /\ last_update'.raised) =>
          UNCHANGED <<hotkey_mappings, pressed_keys>>]_vars

\* ------------------------------------------- claims: the life cycle

\* a step of the thread inside a tick of check_hotkeys
TickStep == poll_pc \in {"key", "close", "drain"} /\ pollVars' # pollVars

\* a release edge callback is invoked in this step
ServiceReleaseEdgeStep == ReleaseEdgeStep /\ query_errors' = query_errors

\* the status events an error is reported with
ErrorStatusEvents == {"Recording error", "No speech detected", "Send error",
                      "Monitoring error"}

\* the errors of claim C22 that the service does report: a failed start of
\* the recording and a failed capture leave the thread in its loop and are
\* turned into a status event
C22_HandlerErrorsReported ==
    [][TickStep =>
          /\ poll_pc' # "none"
          /\ (PressEdgeStep /\ PressAccepted /\ ~is_recording') =>
                 last_status' = "Recording error"
          /\ (n_sessions > 0 /\ sess_stop[n_sessions] # "drain_failed"
                             /\ sess_stop'[n_sessions] = "drain_failed") =>
                 completion_status'[n_sessions] =
                     Append(completion_status[n_sessions], "No speech detected")]_vars

\* Claim C22: no error raised while a press or release edge is handled (a
\* failed start of the recording, a failed capture, a failed key query)
\* ends the poll loop: the thread stays in its loop, and the error is turned
\* into a status event.
C22_ErrorsBecomeStatusEvents ==
    [][TickStep =>
          /\ poll_pc' # "none"
          /\ (PressEdgeStep /\ PressAccepted /\ ~is_recording') =>
                 last_status' = "Recording error"
          /\ (n_sessions > 0 /\ sess_stop[n_sessions] # "drain_failed"
                             /\ sess_stop'[n_sessions] = "drain_failed") =>
                 completion_status'[n_sessions] =
                     Append(completion_status[n_sessions], "No speech detected")
          /\ query_errors' # query_errors =>
                 last_status' \in ErrorStatusEvents]_vars

\* Claim C23: once stop() has returned, and until a later start(), no press
\* or release edge callback is invoked, however stop() interleaved with a
\* tick in progress.
C23_NoEdgeAfterStop ==
    [][after_stop # "no" => ~(PressEdgeStep \/ ServiceReleaseEdgeStep)]_vars

\* what is left of claim C23 when join does not time out
C23_NoEdgeAfterJoin ==
    [][after_stop = "joined" => ~(PressEdgeStep \/ ServiceReleaseEdgeStep)]_vars

\* Claim C24: once stop() has returned, and until a later start(), no
\* capture stream is open and is_recording is false, however stop()
\* interleaved with a tick that delivers a press edge.
C24_StoppedIsNotRecording ==
    after_stop # "no" => (~is_recording /\ stream # "Open")

\* Claim C25: a completion callback that fires after stop() has returned
\* hands no text to the message sender.
C25_NoDeliveryAfterStop ==
    [][\A s \in Sessions :
          (after_stop # "no" /\ CompletionStep(s)) => delivered' = delivered]_vars

\* a call of the thread that starts and stops the service changes nothing
\* but that thread's position
CallIsNoOp ==
    UNCHANGED <<loaderVars, recorderVars, hotkeyVars, serviceVars, statusVars,
                pollVars, poll2_pc, procVars, historyVars, after_stop>>

\* start() while running and stop() while stopped change nothing
StartStopNoOps ==
    /\ (ui_pc = "idle" /\ is_running /\ ui_pc' # ui_pc) =>
           (ui_pc' = "clear" \/ CallIsNoOp)
    /\ (ui_pc = "idle" /\ ~is_running /\ ui_pc' # ui_pc) => CallIsNoOp

\* the first part of claim C26
C26_NoOps == [][StartStopNoOps]_vars

\* Claim C26: start() while running and stop() while stopped change
\* nothing, and at most one poll thread is alive in every reachable state,
\* stop() followed at once by start() included.
C26_OnePollThread ==
    [][StartStopNoOps /\ ~(poll_pc' # "none" /\ poll2_pc' # "none")]_vars

\* ---------------------------------------------------------------- C37
\* C37: in every reachable state a true ready flag implies a constructed
\* model handle, and a transcribe call that got past the readiness check
\* (it stands at the lock of line 103) finds the handle there.
C37_ReadyImpliesModel ==
    /\ is_model_ready => model # "None"
    /\ \A s \in Sessions : proc_pc[s] = "lock" => model # "None"

\* a transcribe call passed the readiness check and used the handle
C37_Witness ==
    \E s \in Sessions : is_model_ready /\ proc_backend[s] = "returned"

\* ---------------------------------------------------------------- C35
\* C35: the active-channel marker is cleared when the matching release stops
\* the recording or when the session is abandoned, so whenever no recording
\* is active the marker identifies no channel (it is the empty string the
\* constructor gave it).
C35_MarkerClearedWhenIdle == ~is_recording => current_prefix = <<>>

\* C35, the clearing itself: a step that ends a recording (the matching
\* release enters stop_recording_and_process) leaves the marker empty.
C35_MarkerClearedOnStop ==
    [][(is_recording /\ ~is_recording') => current_prefix' = <<>>]_vars

\* ---------------------------------------------------------------- C31
\* the completion callback's send failed: its last status event
SendFailed == last_status' = "Send error"

\* C31: every invocation of the completion callback (delivered, empty,
\* transcription failure, delivery failure) schedules exactly one status
\* reset and returns before that reset has run; a delivery failure ends as
\* the status event "Send error" of a completion with a text that was handed
\* to the sender, and the transcription task that made the call ends
\* normally.
C31_CompletionSchedulesOneReset ==
    [][\A s \in Sessions :
          CompletionStep(s) =>
              /\ pending_resets' = pending_resets + 1
              /\ last_status' \notin {"Use hotkeys to speak (auto-send)",
                                       "Use hotkeys to speak (manual-send)"}
              /\ proc_pc[s] = "callback" => proc_pc'[s] = "done"
              /\ SendFailed =>
                     /\ ~Falsy(CompletionResult(s))
                     /\ proc_pc[s] = "callback"
                     /\ Len(delivered') = Len(delivered) + 1]_vars

\* a delivery failed: the status says so, the task is over and the reset is
\* scheduled
C31_Witness ==
    /\ last_status = "Send error"
    /\ pending_resets > 0
    /\ \E s \in Sessions : proc_pc[s] = "done" /\ Len(completions[s]) = 1

\* ---------------------------------------------------------------- C38
\* start() found the model not ready: its status event
CannotStartEvent ==
    /\ last_status' = "Cannot start: Speech recognition model not ready"
    /\ last_status' # last_status

\* C38: start() called while the model is not ready emits a status event and
\* leaves the service stopped (the running flag false, monitoring not
\* enabled, no poll thread started); the running flag is raised, monitoring
\* enabled and a poll thread started only by a step that finds the model
\* ready.
C38_NoStartWithoutModel ==
    [][/\ CannotStartEvent =>
              /\ ~is_model_ready
              /\ ~is_running' /\ ~hm_is_running'
              /\ UNCHANGED <<pollVars, poll2_pc, pressed_keys, after_stop>>
       /\ ((~is_running /\ is_running') \/ (~hm_is_running /\ hm_is_running')
              \/ (~PollThreadAlive /\ PollThreadAlive'))
              => is_model_ready]_vars

\* start() was called without a model and the service is stopped
C38_Witness ==
    /\ last_status = "Cannot start: Speech recognition model not ready"
    /\ ~is_model_ready
    /\ ~is_running /\ ~hm_is_running /\ ~PollThreadAlive

\* ---------------------------------------------------------------- C32
\* the call of stop() that was in progress ends in this step
StopCallEnds ==
    /\ ui_pc \in {"clear", "cleanup", "cleanup_close", "cleanup_drain", "join"}
    /\ ui_pc' = "idle"

\* C32: stop() called while a recording is active, a recording of zero
\* chunks included, never ends with a capture error: every call of stop()
\* that found the service running ends with the service stopped, having
\* reached its join of the poll thread and emitted "Stopped".
C32_StopAlwaysCompletes ==
    [][StopCallEnds =>
           /\ ~is_running'
           /\ after_stop' # "no"
           /\ last_status' = "Stopped"]_vars

\* ---------------------------------------------------------------- C33
\* the backend is at work for the transcribe call of session s: the call
\* iterates the segments
BackendActive(s) == proc_pc[s] = "segments"

\* a load thread is inside WhisperModel(...)
Constructing ==
    \E t \in LoadThreads : load_pc[t] = "construct" /\ model_load_lock = <<"load", t>>

\* the part of claim C33 about the construction: the backend is never at
\* work for a transcribe call while a load thread constructs the model
C33_NoOverlapWithConstruction ==
    \A s \in Sessions : ~(BackendActive(s) /\ Constructing)

\* C33: the backend is never at work for two transcribe calls at a time, and
\* never for one while the model is being constructed, whatever the
\* interleaving of transcription tasks and load threads.
C33_BackendSerialised ==
    /\ C33_NoOverlapWithConstruction
    /\ \A s, t \in Sessions :
           (BackendActive(s) /\ BackendActive(t)) => s = t

\* ---------------------------------------------------------------- C36
\* C36: the buffer is empty whenever no recording is active and the thread
\* using the recorder is back from its call: after a stop_recording that
\* returned the audio and after one that failed, so no chunk of a session
\* is left for a later one.
C36_BufferEmptyAfterStop ==
    (client_pc = "idle" /\ ~is_recording /\ cb_pc = "idle") => audio_buffer = <<>>

\* the conclusion of claim C36: the array a stop_recording returns holds
\* the samples of the chunks appended since the session's start_recording
\* and no others
C36_ArrayHoldsOwnChunksOnly ==
    (last_stop.kind = "data" /\ ~last_stop.guarded) =>
        last_stop.data.data = SamplesInArrivalOrder(session_chunks)

\* ---------------------------------------------------------------- C34
\* a recording is active and the key whose press started it is up
OwnerKeyUp ==
    /\ is_recording
    /\ session_owner[n_sessions].key \notin keys_down

\* C34: under fair polling, whenever a recording is active and its owning
\* key is up, the recording is eventually stopped (stop_recording_and_process
\* is entered, which resets is_recording) unless the key goes down again;
\* also when update_hotkey_mappings was called or a key query failed while
\* the key was held.
C34_ReleasedRecordingStops == OwnerKeyUp ~> ~OwnerKeyUp

\* ---------------------------------------------------------------- C39
\* the key the tick is at has been held since a press edge for it that the
\* handler ignored
HeldSinceIgnoredPress ==
    /\ poll_pc = "key"
    /\ PollKey \in keys_down
    /\ held_presses[PollKey] >= 1
    /\ last_edge[PollKey] = "ignored"

\* the second part of claim C39: a release edge stops a recording only if
\* its prefix is the active channel of a recording active at that time
C39_ReleaseStopsOwnChannelOnly ==
    [][(ReleaseEdgeStep /\ (is_recording' # is_recording \/ poll_pc' = "close"))
          => (is_recording /\ current_prefix = hotkey_mappings[PollKey])]_vars

\* C39: a press edge that was ignored is never retried: while the key stays
\* held the tick delivers no press edge and starts no recording for it, even
\* after the blocking condition has ended; and its release stops a recording
\* only if its prefix is the active channel of a recording active then.
C39_IgnoredPressNotRetried ==
    [][/\ HeldSinceIgnoredPress => (n_sessions' = n_sessions /\ ~PressEdgeStep)
       /\ (ReleaseEdgeStep /\ (is_recording' # is_recording \/ poll_pc' = "close"))
             => (is_recording /\ current_prefix = hotkey_mappings[PollKey])]_vars
====
